---- MODULE Spec2Model ----
(***************************************************************************)
(* The browser-session pool of tv/core/session_manager.py: SessionPool     *)
(* (mapping, available set, janitor thread, shutdown) and the scoped       *)
(* lease of SessionManager.get_session.                                    *)
(*                                                                         *)
(* Every `with self._lock` block of the source is one atomic action: the   *)
(* lock is a threading.RLock, so two blocks never overlap.  Time is        *)
(* abstracted: which sessions the clock makes expired or idle is an input  *)
(* of each janitor pass, and a timed wait may end at any moment.           *)
(***************************************************************************)
EXTENDS Integers, FiniteSets, Sequences, TLC

\* Session ids (session_<time>_<id(self)>): distinct for objects alive at
\* the same time, possibly equal for an object created after another died.
IDs == {"s1", "s2", "s3"}
IdOrder == [s \in IDs |-> CASE s = "s1" -> 1 [] s = "s2" -> 2 [] OTHER -> 3]

\* The callers of the pool: threads of their own, or tasks of one event loop.
Callers == {"A", "B"}

NoSession == "none"

\* BrowserSession.max_errors, the dataclass default the pool never overrides.
max_errors == 5

\* The number of get_session calls the callers make in all.
MaxCalls == 2

\* The same in the runs that wear a session out: enough calls to use up its
\* error budget and to ask for a session once more.
MaxCallsWorn == max_errors + 1

\* The value a deployment sets for max_errors_per_session (scenario S4).
ConfMaxErrorsPerSession == 2

\* The longest list a batch call is given, and the batch calls made in all.
MaxJobs == 3
MaxBatches == 2

\* The calls of ResourceManager.shutdown made in all.
MaxShutdowns == 2

\* The calls that change the PerformanceMonitor made in all, and the longest
\* duration.
MaxOps == 2
MaxDuration == 1

\* The largest max_retries and attempt number, and the calls of
\* retry_on_failure and progressive_delay made in all.
MaxRetries == 2
MaxRetryCalls == 2

\* The browser operations (click_element_async and the like) called in all.
MaxBrowserOps == 2

\* The browsers get_browser creates and the calls of cleanup made in the
\* runs of cleanup.
MaxBrowsers == 2
MaxCleanups == 2

\* The jobs of a batch where the worker threads are modelled.
MaxDetachJobs == 2

\* The calls made on initialize_performance_monitoring and
\* cleanup_performance_monitoring.
MaxInitCalls == 3

\* The get_session calls made where the lock is modelled.
MaxLockCalls == 2

\* The configurations explored: <<min_pool_size, max_pool_size>>.
Configs == {<<0, 1>>, <<2, 1>>, <<1, 2>>}

VARIABLES
    min_pool_size,   \* config['min_pool_size']
    max_pool_size,   \* config['max_pool_size']
    oneLoop,         \* TRUE: the callers are tasks of one asyncio event loop
    sessions,        \* keys of SessionPool._sessions
    available,       \* SessionPool._available_sessions
    obj,             \* the BrowserSession objects, by id
    pc,              \* where each caller is
    held,            \* the session a caller's scope refers to
    exit,            \* how the caller's scope left its body
    returned,        \* the return_session calls of the caller's scope, in order
    jpc,             \* where the janitor thread is
    shutdown_event,  \* SessionPool._shutdown_event
    spc,             \* where SessionPool.shutdown is
    budget,          \* the get_session calls the callers may still make
    root_left,       \* the calls of ResourceManager.shutdown still to be made
    want,            \* the username a caller's get_authenticated_session is for
    yielded,         \* that call has yielded its session
    login_result,    \* what login returned to that call, "none" when not called
    b_kind,          \* the batch call in progress: which method
    b_n,             \* the length of its input list
    b_state,         \* where the batch call is
    b_left,          \* the batch calls still to be made
    tasks,           \* where each job (task of the gather) is
    task_browser,    \* the local `browser` of each job
    cancel_req,      \* jobs whose next step is a CancelledError
    handed,          \* appends of return_browser completed for each job
    outcome,         \* what each job returned or raised
    order,           \* the jobs in the order they completed
    results,         \* the list the batch call returned
    browser_pool,    \* AsyncBrowserManager._browser_pool
    pool_lock,       \* AsyncBrowserManager._pool_lock: the holder, then the waiters
    woke,            \* the job whose release woke the waiter now first in line
    created,         \* browsers get_browser has created
    detached,        \* browsers on which the call of a cancelled job still runs
    enabled,         \* PerformanceMonitor.enabled
    max_metrics,     \* PerformanceMonitor.max_metrics
    metrics,         \* PerformanceMonitor.metrics, oldest first
    operation_stats, \* PerformanceMonitor.operation_stats, by name
    mon_lock,        \* the thread inside a `with self._lock` block
    clock,           \* the metrics made so far: the timestamp of the next one
    th,              \* the threads that call the monitor: position and locals
    cpc,             \* where the collection thread is
    stop_collection, \* PerformanceMonitor._stop_collection
    stop_pc,         \* where PerformanceMonitor.stop is
    started,         \* record_operation calls made while enabled, by name
    was_reset,       \* reset_stats has been called
    fresh,           \* nothing was recorded or added since reset_stats
    overflows,       \* the appends that found the deque of metrics full
    mon_left,        \* the changing calls that may still be made on the monitor
    rt,              \* the call of TimingManager in progress: arguments, locals
    retry_left,      \* the calls that may still be made on TimingManager
    bo,              \* the browser operation of each task: arguments, locals
    ops_left,        \* the browser operations that may still be called
    executor_down,   \* AsyncBrowserManager.executor has been shut down
    lent,            \* the browsers get_browser has given out
    reused,          \* the browsers get_browser has taken from the pool
    quits,           \* the calls of quit made on each browser
    cl,              \* the call of cleanup in progress
    cleanups_left,   \* the calls of cleanup still to be made
    lk,              \* the thread that holds SessionPool._lock
    horizon,         \* now - retention: metrics stamped before it are old
    global_monitor,  \* performance_monitor._global_monitor, 0 for None
    monitors,        \* the PerformanceMonitor objects constructed so far
    sampling,        \* the monitors whose collection thread runs
    ini,             \* the calls of initialize_performance_monitoring
    cleanups,        \* the calls of cleanup_performance_monitoring made
    init_left        \* the calls that may still be made on the module

batchCtl == <<b_kind, b_n, b_state, b_left, results>>
jobVars == <<tasks, task_browser, cancel_req, handed, outcome, order>>
mgrVars == <<browser_pool, pool_lock, woke, created, detached>>
batchVars == <<batchCtl, jobVars, mgrVars>>

\* The variables that are no part of the session pool and its callers.
authVars == <<want, yielded, login_result>>
monData == <<enabled, max_metrics, metrics, operation_stats, mon_lock, clock>>
monThreads == <<th, cpc, stop_collection, stop_pc>>
monHist == <<started, was_reset, fresh, overflows, mon_left>>
monVars == <<monData, monThreads, monHist>>
retryVars == <<rt, retry_left>>
opVars == <<bo, ops_left>>
cleanVars == <<executor_down, lent, reused, quits, cl, cleanups_left>>
lockVars == <<lk>>
ageVars == <<horizon>>
globVars == <<global_monitor, monitors, sampling, ini, cleanups, init_left>>
restVars == <<lockVars, ageVars, globVars>>
outsidePool ==
    <<batchVars, authVars, monVars, retryVars, opVars, cleanVars, restVars>>

vars == <<min_pool_size, max_pool_size, oneLoop, sessions, available, obj,
          pc, held, exit, returned, jpc, shutdown_event, spc, budget,
          root_left, batchVars, authVars, monVars, retryVars, opVars,
          cleanVars, restVars>>

confVars == <<min_pool_size, max_pool_size, oneLoop>>
poolVars == <<sessions, available, obj>>
callerVars == <<pc, held, exit, returned>>

(***************************************************************************)
(* BrowserSession                                                          *)
(***************************************************************************)

\* The usernames get_authenticated_session is called with; None.
Users == {"P", "Q"}
NoUser == "none"

\* No object: the slot of an id that no live object carries.  `account` is
\* no field of BrowserSession: it is the user the browser is logged in as on
\* the site.
NoObj ==
    [browser |-> "none", is_busy |-> FALSE, usage_count |-> 0,
     error_count |-> 0, is_authenticated |-> FALSE, username |-> "none",
     account |-> "none"]

\* _create_session: a new browser, created_at = last_used = now.
NewObj ==
    [browser |-> "open", is_busy |-> FALSE, usage_count |-> 0,
     error_count |-> 0, is_authenticated |-> FALSE, username |-> "none",
     account |-> "none"]

\* is_expired, is_idle: Old are the sessions with now - created_at > max_age,
\* Unused those with now - last_used > max_idle, at the time of the call.
is_expired(sid, Old) == sid \in Old

is_idle(sid, Unused) == sid \in Unused

is_healthy_offbyone(o) == o.error_count <= max_errors

is_healthy(o) == o.error_count < max_errors

\* last_used = now is no state of the model: see is_idle.
mark_used(o) == [o EXCEPT !.usage_count = @ + 1]

mark_error(o) == [o EXCEPT !.error_count = @ + 1]

(***************************************************************************)
(* SessionPool: the operations on P = [sessions, available, obj]           *)
(***************************************************************************)

Pool == [sessions |-> sessions, available |-> available, obj |-> obj]

\* Ids no live object carries: not in the mapping, not referred to by a caller.
FreeIds == {s \in IDs : s \notin sessions /\ \A c \in Callers : held[c] # s}

\* The ids of k new objects (fewer when the ids run out).  An id is opaque
\* to the pool: the first free ones stand for any.
RECURSIVE FirstFree(_, _)
FirstFree(F, k) ==
    IF k = 0 \/ F = {} THEN {}
    ELSE LET sid == CHOOSE x \in F : \A y \in F : IdOrder[x] <= IdOrder[y]
         IN {sid} \cup FirstFree(F \ {sid}, k - 1)

\* _remove_session: quit the browser, delete from the mapping and the set.
remove_session(P, sid) ==
    IF sid \in P.sessions
    THEN [sessions |-> P.sessions \ {sid},
          available |-> P.available \ {sid},
          obj |-> [P.obj EXCEPT ![sid].browser = "closed"]]
    ELSE P

RECURSIVE remove_all(_, _)
remove_all(P, S) ==
    IF S = {} THEN P
    ELSE LET sid == CHOOSE x \in S : TRUE
         IN remove_all(remove_session(P, sid), S \ {sid})

cleanup_expired_sessions_spares_leased(P, Old, Unused) ==
    LET expired_sessions ==
            {sid \in P.available :
                \/ is_expired(sid, Old)
                \/ is_idle(sid, Unused)
                \/ ~is_healthy(P.obj[sid])}
    IN remove_all(P, expired_sessions)

\* _cleanup_expired_sessions: every session of the mapping that is expired,
\* idle or unhealthy is removed, leased or not.
cleanup_expired_sessions(P, Old, Unused) ==
    LET expired_sessions ==
            {sid \in P.sessions :
                \/ is_expired(sid, Old)
                \/ is_idle(sid, Unused)
                \/ ~is_healthy(P.obj[sid])}
    IN remove_all(P, expired_sessions)

\* One successful pass of the loop body of _maintain_pool_size.
add_idle_session(P, sid) ==
    [sessions |-> P.sessions \cup {sid},
     available |-> P.available \cup {sid},
     obj |-> [P.obj EXCEPT ![sid] = NewObj]]

RECURSIVE add_idle_sessions(_, _)
add_idle_sessions(P, S) ==
    IF S = {} THEN P
    ELSE LET sid == CHOOSE x \in S : TRUE
         IN add_idle_sessions(add_idle_session(P, sid), S \ {sid})

\* _maintain_pool_size: how many sessions the pass tries to create.
needed(P, minSize) ==
    IF Cardinality(P.sessions) < minSize
    THEN minSize - Cardinality(P.sessions)
    ELSE 0

\* get_session, first branch: the idle sessions the scan may return.
Candidates(P) ==
    {sid \in P.available : sid \in P.sessions /\ is_healthy(P.obj[sid])}

take_session_left_available(P, sid) ==
    [sessions |-> P.sessions,
     available |-> P.available,
     obj |-> [P.obj EXCEPT ![sid] = mark_used([@ EXCEPT !.is_busy = TRUE])]]

take_session(P, sid) ==
    [sessions |-> P.sessions,
     available |-> P.available \ {sid},
     obj |-> [P.obj EXCEPT ![sid] = mark_used([@ EXCEPT !.is_busy = TRUE])]]

under_limit_inclusive(P, maxSize) == Cardinality(P.sessions) <= maxSize

\* get_session, second branch: may a session be created?
under_limit(P, maxSize) == Cardinality(P.sessions) < maxSize

create_leased(P, sid) ==
    [sessions |-> P.sessions \cup {sid},
     available |-> P.available,
     obj |-> [P.obj EXCEPT ![sid] = mark_used([NewObj EXCEPT !.is_busy = TRUE])]]

return_session_keeps_unhealthy(P, sid, had_error) ==
    IF sid \in P.sessions
    THEN LET o1 == [P.obj[sid] EXCEPT !.is_busy = FALSE]
             o2 == IF had_error THEN mark_error(o1) ELSE o1
             P2 == [P EXCEPT !.obj[sid] = o2]
         IN [P2 EXCEPT !.available = @ \cup {sid}]
    ELSE P

return_session_stays_busy(P, sid, had_error) ==
    IF sid \in P.sessions
    THEN LET o2 == IF had_error THEN mark_error(P.obj[sid]) ELSE P.obj[sid]
             P2 == [P EXCEPT !.obj[sid] = o2]
         IN IF is_healthy(o2)
            THEN [P2 EXCEPT !.available = @ \cup {sid}]
            ELSE remove_session(P2, sid)
    ELSE P

return_session_counts_error(P, sid, had_error) ==
    IF sid \in P.sessions
    THEN LET o2 == mark_error([P.obj[sid] EXCEPT !.is_busy = FALSE])
             P2 == [P EXCEPT !.obj[sid] = o2]
         IN IF is_healthy(o2)
            THEN [P2 EXCEPT !.available = @ \cup {sid}]
            ELSE remove_session(P2, sid)
    ELSE P

\* return_session.
return_session(P, sid, had_error) ==
    IF sid \in P.sessions
    THEN LET o1 == [P.obj[sid] EXCEPT !.is_busy = FALSE]
             o2 == IF had_error THEN mark_error(o1) ELSE o1
             P2 == [P EXCEPT !.obj[sid] = o2]
         IN IF is_healthy(o2)
            THEN [P2 EXCEPT !.available = @ \cup {sid}]
            ELSE remove_session(P2, sid)
    ELSE P

\* get_session that takes the idle session sid, then return_session of it
\* with had_error = False, nothing else touching the pool in between.
round_trip_idle(P, sid) == return_session(take_session(P, sid), sid, FALSE)

\* The same when get_session creates the session sid.
round_trip_new(P, sid) == return_session(create_leased(P, sid), sid, FALSE)

(***************************************************************************)
(* SessionManager.get_authenticated_session and AuthenticationManager      *)
(***************************************************************************)

needs_login_ignores_username(o, username) == ~o.is_authenticated

\* get_authenticated_session: is login called?
needs_login(o, username) == ~o.is_authenticated \/ o.username # username

\* AuthenticationManager.login on the browser of o.  A browser that is quit
\* raises, which login turns into False; a browser that shows a logged-in
\* account makes login return True at once, whoever is asked for; otherwise
\* the form is filled in and the site accepts the credentials (ok) or not.
login(o, username, ok) ==
    IF o.browser # "open" THEN [result |-> FALSE, obj |-> o]
    ELSE IF o.account # NoUser THEN [result |-> TRUE, obj |-> o]
    ELSE IF ok THEN [result |-> TRUE, obj |-> [o EXCEPT !.account = username]]
    ELSE [result |-> FALSE, obj |-> o]

\* get_authenticated_session after a successful login.
authenticated(o, username) ==
    [o EXCEPT !.is_authenticated = TRUE, !.username = username]

(***************************************************************************)
(* SessionManager.get_session: the exit of the scope                       *)
(***************************************************************************)

ExitKinds == {"normal", "exception", "cancelled"}

\* had_error is set by `except Exception` only; asyncio.CancelledError is a
\* BaseException and passes it by.
scope_had_error(kind) == kind = "exception"

\* The return_session calls the exit makes, whatever the kind: one, in the
\* finally clause.
scope_returns_unless_cancelled(sid, kind) ==
    IF kind = "cancelled" THEN <<>>
    ELSE <<[session |-> sid, had_error |-> scope_had_error(kind)]>>

scope_returns(sid, kind) ==
    <<[session |-> sid, had_error |-> scope_had_error(kind)]>>

RECURSIVE apply_returns(_, _)
apply_returns(P, args) ==
    IF args = <<>> THEN P
    ELSE apply_returns(
             return_session(P, Head(args).session, Head(args).had_error),
             Tail(args))

(***************************************************************************)
(* tv/core/async_browser.py: AsyncBrowserManager and the batch calls of    *)
(* AsyncTradingViewClient.  The jobs are tasks of one event loop: a job    *)
(* runs from one await that suspends it to the next as one atomic action.  *)
(***************************************************************************)

Jobs == 1..MaxJobs

\* parallel_operations (batch_element_operations is built the same way), and
\* create_alerts_batch (process_signals_parallel and, as one job, login_async
\* are built the same way).
BatchKinds == {"operations", "alerts"}

NoBrowser == 0

\* What a job returned or raised, tagged with the input it was made from.
Pending == [job |-> 0, kind |-> "pending"]
Outcome(i, kind) == [job |-> i, kind |-> kind]

\* asyncio.gather(*tasks, return_exceptions=True): the outcomes in the order
\* of the arguments.
gather_by_completion(n, out, ord) == [k \in 1..n |-> out[ord[k]]]

gather_results(n, out, ord) == [k \in 1..n |-> out[k]]

\* return_exceptions=True: a job's exception is its result; no other job is
\* cancelled for it.
child_failed_cancels_siblings(flags, i, n) ==
    [j \in Jobs |-> flags[j] \/ (j # i /\ j <= n)]

child_failed(flags, i, n) == flags

\* asyncio.Lock: acquire returns at once when the lock is free and nobody
\* waits; otherwise the caller queues, and release wakes the first waiter.
lock_free(q) == q = <<>>
lock_wait(q, i) == Append(q, i)
lock_mine(q, i) == q # <<>> /\ Head(q) = i
lock_release(q) == Tail(q)
\* The job that releases to a waiter: the waiter's wake-up is in the loop's
\* ready queue before anything the job starts afterwards can complete.
lock_waker(q, i) == IF Tail(q) # <<>> THEN i ELSE 0
\* A waiter that is cancelled leaves the queue.
lock_leave(q, i) == SelectSeq(q, LAMBDA x : x # i)

\* list.pop() and list.append(browser).
pool_pop(pool) ==
    [browser |-> pool[Len(pool)], rest |-> SubSeq(pool, 1, Len(pool) - 1)]
pool_append(pool, b) == Append(pool, b)

\* A task cancelled while it awaits run_in_executor: the future is cancelled,
\* the function that runs in the worker thread is not, and goes on using its
\* browser.
still_running(running, at, kind, browser) ==
    IF at = "working" /\ kind # "operations"
    THEN running \cup {browser}
    ELSE running

\* AsyncBrowserManager.__init__: an empty pool, a free lock.
AsyncConstructed ==
    /\ b_kind = "none" /\ b_n = 0 /\ b_state = "idle" /\ b_left = MaxBatches
    /\ results = <<>>
    /\ tasks = [i \in Jobs |-> "none"]
    /\ task_browser = [i \in Jobs |-> NoBrowser]
    /\ cancel_req = [i \in Jobs |-> FALSE]
    /\ handed = [i \in Jobs |-> 0]
    /\ outcome = [i \in Jobs |-> Pending]
    /\ order = <<>>
    /\ browser_pool = <<>> /\ pool_lock = <<>> /\ woke = 0
    /\ created = 0
    /\ detached = {}

(***************************************************************************)
(* State changes                                                           *)
(***************************************************************************)

\* The objects still referred to once the mapping is S and the callers hold h;
\* the others are gone.
Collect(o, S, h) ==
    [s \in IDs |->
        IF s \in S \/ \E c \in Callers : h[c] = s THEN o[s] ELSE NoObj]

SetPool(Q, h) ==
    /\ sessions' = Q.sessions
    /\ available' = Q.available
    /\ obj' = Collect(Q.obj, Q.sessions, h)

\* A task of the one event loop runs only while no other task blocks the
\* loop's thread in the sleep of SessionPool.get_session.
LoopFree(c) == oneLoop => \A d \in Callers \ {c} : pc[d] # "waiting"

(***************************************************************************)
(* tv/core/performance_monitor.py: OperationStats and the metrics deque    *)
(***************************************************************************)

Threads == {"t1", "t2"}
NoThread == "none"
Names == {"a", "b"}
Durations == 1..MaxDuration

\* float('inf'), the first min_time: above every duration.
Inf == MaxDuration + 1

\* The maxlen of OperationStats.recent_times.
recent_maxlen == 100

\* The configurations explored: <<performance_monitoring, max_metrics>>.
MonConfigs == {<<TRUE, 1>>, <<TRUE, 2>>, <<FALSE, 2>>}

Least(a, b) == IF a < b THEN a ELSE b
Greatest(a, b) == IF a > b THEN a ELSE b

deque_append_unbounded(q, e, maxlen) == Append(q, e)

\* deque.append with a maxlen: a full deque drops from the left.
deque_append(q, e, maxlen) ==
    LET r == Append(q, e)
    IN IF Len(r) > maxlen THEN SubSeq(r, Len(r) - maxlen + 1, Len(r)) ELSE r

\* One when a deque has reached its maxlen.
full(q, maxlen) == IF Len(q) >= maxlen THEN 1 ELSE 0

\* No entry of operation_stats for a name; OperationStats(name).
NoStats ==
    [present |-> FALSE, count |-> 0, total_time |-> 0, min_time |-> Inf,
     max_time |-> 0, success_count |-> 0, error_count |-> 0,
     recent_times |-> <<>>]
NewStats == [NoStats EXCEPT !.present = TRUE]

\* add_timing up to the test of success, from the count it has read.
add_timing_count(st, read, duration) ==
    [st EXCEPT !.count = read + 1,
               !.total_time = @ + duration,
               !.min_time = Least(@, duration),
               !.max_time = Greatest(@, duration),
               !.recent_times = deque_append(@, duration, recent_maxlen)]

\* add_timing: the test of success.
add_timing_flag(st, success) ==
    IF success THEN [st EXCEPT !.success_count = @ + 1]
    ELSE [st EXCEPT !.error_count = @ + 1]

\* OperationStats.to_dict; the averages and the rate are quotients of the
\* fields kept here.
to_dict(st) ==
    [count |-> st.count, total_time |-> st.total_time,
     min_time |-> IF st.min_time # Inf THEN st.min_time ELSE 0,
     max_time |-> st.max_time, success_count |-> st.success_count,
     error_count |-> st.error_count]

\* get_operation_stats(None): a dictionary over the names that have an entry.
get_operation_stats(stats) ==
    [n \in {m \in Names : stats[m].present} |-> to_dict(stats[n])]

\* get_metrics(): the events as dictionaries, oldest first.
get_metrics(ms) ==
    [k \in 1..Len(ms) |->
        [name |-> ms[k].name, value |-> ms[k].value,
         timestamp |-> ms[k].timestamp]]

reset_stats_keeps_operations(ms, stats) == [metrics |-> <<>>, stats |-> stats]

\* reset_stats: both containers are cleared.
reset_stats(ms, stats) ==
    [metrics |-> <<>>, stats |-> [n \in Names |-> NoStats]]

lock_acquirable_always(owner, t) == TRUE

\* threading.RLock: free, or held by the same thread.
lock_acquirable(owner, t) == owner \in {NoThread, t}

timer_success_as_marked(kind, marked) == ~marked

\* PerformanceTimer.__exit__: success = exc_type is None, whatever mark_error
\* has set before.
timer_success(kind, marked) == kind = "normal"

\* A thread between two calls.
IdleThread ==
    [pc |-> "idle", job |-> "none", name |-> "none", duration |-> 0,
     success |-> FALSE, read |-> 0, exit |-> "none", marked |-> FALSE,
     calls |-> <<>>, raised |-> FALSE, stamp |-> 0, seen |-> <<>>,
     seen_fresh |-> FALSE]

\* A call on the monitor has returned, or raised what its scope let through.
Finished(r) == [r EXCEPT !.pc = "done", !.raised = (r.exit = "exception")]

\* PerformanceMetric(name, value, unit, timestamp = datetime.now(), tags).
PerformanceMetric(kind, of, value, now) ==
    [name |-> [kind |-> kind, of |-> of], value |-> value, timestamp |-> now]

\* _cleanup_old_metrics: popleft while the first metric is older than the
\* cutoff.
RECURSIVE cleanup_old_metrics(_, _)
cleanup_old_metrics(ms, cutoff) ==
    IF ms # <<>> /\ Head(ms).timestamp < cutoff
    THEN cleanup_old_metrics(Tail(ms), cutoff)
    ELSE ms

\* A caller of the module functions between two calls.
NoInit == [pc |-> "idle", on |-> FALSE, mine |-> 0, got |-> 0]

\* `if _global_monitor is None`.
is_none(g) == g = 0

\* The module is imported: _global_monitor = None.  n calls will be made on
\* the module functions.
ModuleLoaded(n) ==
    /\ global_monitor = 0
    /\ monitors = 0
    /\ sampling = {}
    /\ ini = [t \in Threads |-> NoInit]
    /\ cleanups = 0
    /\ init_left = n

\* PerformanceMonitor.__init__: the collection thread is started when the
\* monitor is enabled.  n calls will be made on the monitor.
MonConstructed(Cfgs, n) ==
    /\ \E cfg \in Cfgs : enabled = cfg[1] /\ max_metrics = cfg[2]
    /\ metrics = <<>>
    /\ operation_stats = [m \in Names |-> NoStats]
    /\ mon_lock = NoThread
    /\ clock = 0
    /\ th = [t \in Threads |-> IdleThread]
    /\ cpc = IF enabled THEN "collect" ELSE "none"
    /\ stop_collection = FALSE
    /\ stop_pc = "none"
    /\ started = [m \in Names |-> 0]
    /\ was_reset = FALSE
    /\ fresh = FALSE
    /\ overflows = 0
    /\ mon_left = n
    /\ horizon = 0

(***************************************************************************)
(* tv/utils/timing_utils.py: TimingManager.retry_on_failure                *)
(***************************************************************************)

\* What func() does in one call: it returns, or raises an exception of one
\* of two classes.
ExceptionKinds == {"Timeout", "Fatal"}
CallOutcomes == {"value"} \cup ExceptionKinds

\* The `exceptions` tuples explored: one class, and both (Exception).
ExceptionTuples == {{"Timeout"}, ExceptionKinds}

\* The delays explored, in seconds.
Delays == {1, 6}

\* The cap of progressive_delay, in seconds.
delay_cap == 10

RECURSIVE Pow2(_)
Pow2(n) == IF n = 0 THEN 1 ELSE 2 * Pow2(n - 1)

attempts_as_bound(max_retries) == 0..(max_retries - 1)

\* range(max_retries + 1).
attempts(max_retries) == 0..max_retries

caught_always(kind, exceptions) == TRUE

\* `except exceptions as e`.
caught(kind, exceptions) == kind \in exceptions

retry_delay_doubling(delay, attempt) ==
    Least(delay * Pow2(attempt), delay_cap)

\* What retry_on_failure sleeps after the failed attempt: time.sleep(delay).
retry_delay(delay, attempt) == delay

\* progressive_delay(attempt, base_delay): the seconds it sleeps.
progressive_delay(attempt, base_delay) ==
    Least(base_delay * Pow2(attempt), delay_cap)

\* No exception: None.
NoException == [kind |-> "none", attempt |-> -1]

\* TimingManager between two calls.
NoRetry ==
    [pc |-> "idle", max_retries |-> 0, delay |-> 0, exceptions |-> {},
     attempt |-> 0, last_exception |-> NoException, log |-> <<>>,
     slept |-> <<>>, out |-> NoException]

\* TimingManager.__init__; n calls will be made on it.
RetryConstructed(n) == rt = NoRetry /\ retry_left = n

(***************************************************************************)
(* tv/core/async_browser.py: the element operations                        *)
(***************************************************************************)

BrowserOps == {"wait_for_element", "click", "get_text", "type_text"}

\* The tasks that await element operations, each on a browser of its own.
OpTasks == {1, 2}

\* What a call of Selenium does: WebDriverWait.until finds the element, or
\* raises TimeoutException when the timeout has passed, or raises another
\* WebDriverException (the connection is broken, the tab has crashed).
UntilOutcomes == {"found", "TimeoutException", "WebDriverException"}

\* A command on the element returns or raises a WebDriverException; click
\* also waits for a navigation it starts, and raises TimeoutException when
\* the page load timeout passes first.
CommandOutcomes(call) ==
    IF call = "click" THEN {"ok", "TimeoutException", "WebDriverException"}
    ELSE {"ok", "WebDriverException"}

\* `except TimeoutException`.
is_timeout(res) == res = "TimeoutException"

\* What an operation returns from its except clause, and from its try block.
negative(op) == IF op = "get_text" THEN "None" ELSE "False"
positive(op) == IF op = "get_text" THEN "text" ELSE "True"

\* The commands an operation makes on the element it has waited for.
commands(op, clear_first) ==
    CASE op = "wait_for_element" -> <<>>
      [] op = "click" -> <<"click">>
      [] op = "get_text" -> <<"text">>
      [] op = "type_text" ->
            IF clear_first THEN <<"clear", "send_keys">> ELSE <<"send_keys">>

\* No operation in progress.
NoOp ==
    [pc |-> "idle", op |-> "none", clear_first |-> FALSE, todo |-> <<>>,
     steps |-> <<>>, result |-> [kind |-> "none", value |-> "none"]]

\* The Selenium call of an operation ended with res: the operation goes on,
\* returns from its except clause, or the exception leaves it for the
\* awaiting caller.
after_call(o, call, res) ==
    LET s == [o EXCEPT !.steps = Append(@, [call |-> call, res |-> res])]
    IN IF res \in {"found", "ok"}
       THEN IF s.todo = <<>>
            THEN [s EXCEPT
                    !.pc = "done",
                    !.result = [kind |-> "return", value |-> positive(o.op)]]
            ELSE [s EXCEPT !.pc = "command"]
       ELSE IF is_timeout(res)
            THEN [s EXCEPT
                    !.pc = "done",
                    !.result = [kind |-> "return", value |-> negative(o.op)]]
            ELSE [s EXCEPT
                    !.pc = "done", !.result = [kind |-> "raise", value |-> res]]

OpsConstructed(n) == bo = [i \in OpTasks |-> NoOp] /\ ops_left = n

(***************************************************************************)
(* AsyncBrowserManager.cleanup                                             *)
(***************************************************************************)

BrowserIds == 1..MaxBrowsers

\* The task that runs cleanup, as a holder of _pool_lock.
CleanupTask == 0

\* No call of cleanup in progress.
NoCleanup == [pc |-> "idle", i |-> 0, seen |-> <<>>, before |-> <<>>]

\* loop.run_in_executor(self.executor, browser.quit): the call is made, or
\* submit raises RuntimeError because the executor has been shut down.
quit_submitted(down) == ~down

\* AsyncBrowserManager.__init__: a running executor; n calls of cleanup will
\* be made.
CleanConstructed(n) ==
    /\ executor_down = FALSE
    /\ lent = {}
    /\ reused = {}
    /\ quits = [b \in BrowserIds |-> 0]
    /\ cl = NoCleanup
    /\ cleanups_left = n

\* The monitor, the timing manager and the element operations of a program
\* that makes no call on them.
MonIdle ==
    /\ MonConstructed({<<TRUE, 1>>}, 0) /\ RetryConstructed(0)
    /\ OpsConstructed(0) /\ CleanConstructed(0) /\ ModuleLoaded(0)

\* threading.RLock: no thread holds the lock.
NoHolder == "none"

\* The loop condition of _health_check_loop.
health_check_continues_always(event) == TRUE

health_check_continues(event) == ~event

\* SessionPool.__init__: an empty pool, the janitor thread started.
Constructed(Cfgs, n, k) ==
    /\ \E cfg \in Cfgs : min_pool_size = cfg[1] /\ max_pool_size = cfg[2]
    /\ budget = n
    /\ sessions = {}
    /\ available = {}
    /\ obj = [s \in IDs |-> NoObj]
    /\ pc = [c \in Callers |-> "idle"]
    /\ held = [c \in Callers |-> NoSession]
    /\ exit = [c \in Callers |-> "none"]
    /\ returned = [c \in Callers |-> <<>>]
    /\ jpc = "wait"
    /\ shutdown_event = FALSE
    /\ spc = "none"
    /\ lk = NoHolder
    /\ root_left = k
    /\ want = [c \in Callers |-> NoUser]
    /\ yielded = [c \in Callers |-> FALSE]
    /\ login_result = [c \in Callers |-> "none"]

\* The callers are threads (or tasks of event loops of their own).
Init ==
    /\ Constructed(Configs, MaxCalls, MaxShutdowns) /\ oneLoop = FALSE
    /\ AsyncConstructed /\ MonIdle

\* The callers are tasks of one event loop.
InitLoop ==
    /\ Constructed(Configs, MaxCalls, MaxShutdowns) /\ oneLoop = TRUE
    /\ AsyncConstructed /\ MonIdle

\* A pool of at most one session, the callers threads, more calls, one
\* shutdown.
InitWorn ==
    /\ Constructed({<<0, 1>>}, MaxCallsWorn, 1) /\ oneLoop = FALSE
    /\ AsyncConstructed /\ MonIdle

\* A caller is inside SessionPool.get_session, at the head of a loop pass.
InGet(c) ==
    /\ pc[c] \in {"idle", "waiting"}
    /\ LoopFree(c)
    /\ pc[c] = "idle" => budget > 0
    /\ budget' = IF pc[c] = "idle" THEN budget - 1 ELSE budget

\* get_session: the scan finds an idle healthy session.
GetIdle(c, sid) ==
    /\ InGet(c)
    /\ sid \in Candidates(Pool)
    /\ pc' = [pc EXCEPT ![c] = "body"]
    /\ held' = [held EXCEPT ![c] = sid]
    /\ SetPool(take_session(Pool, sid), held')
    /\ UNCHANGED <<outsidePool, root_left, confVars, exit, returned,
                   jpc, shutdown_event, spc>>

\* get_session: nothing idle, the pool is under its limit, a session is created.
GetCreate(c, sid) ==
    /\ InGet(c)
    /\ Candidates(Pool) = {}
    /\ under_limit(Pool, max_pool_size)
    /\ sid \in FirstFree(FreeIds, 1)
    /\ pc' = [pc EXCEPT ![c] = "body"]
    /\ held' = [held EXCEPT ![c] = sid]
    /\ SetPool(create_leased(Pool, sid), held')
    /\ UNCHANGED <<outsidePool, root_left, confVars, exit, returned,
                   jpc, shutdown_event, spc>>

\* get_session: _create_session raises; the error is logged, the pass sleeps.
GetCreateFail(c) ==
    /\ InGet(c)
    /\ Candidates(Pool) = {}
    /\ under_limit(Pool, max_pool_size)
    /\ pc' = [pc EXCEPT ![c] = "waiting"]
    /\ UNCHANGED <<outsidePool, root_left, confVars, poolVars, held,
                   exit, returned, jpc,
                   shutdown_event, spc>>

\* get_session: nothing idle, the pool is at its limit, the pass sleeps.
GetFull(c) ==
    /\ InGet(c)
    /\ Candidates(Pool) = {}
    /\ ~under_limit(Pool, max_pool_size)
    /\ pc' = [pc EXCEPT ![c] = "waiting"]
    /\ UNCHANGED <<outsidePool, root_left, confVars, poolVars, held,
                   exit, returned, jpc,
                   shutdown_event, spc>>

\* get_session: the timeout has elapsed at the head of a later pass; None is
\* returned and SessionManager.get_session raises RuntimeError.
GetTimeout(c) ==
    /\ pc[c] = "waiting"
    /\ LoopFree(c)
    /\ pc' = [pc EXCEPT ![c] = "failed"]
    /\ UNCHANGED <<outsidePool, root_left, confVars, poolVars, held,
                   exit, returned, jpc,
                   shutdown_event, spc, budget>>

\* The RuntimeError has reached the caller.
Raised(c) ==
    /\ pc[c] = "failed"
    /\ LoopFree(c)
    /\ pc' = [pc EXCEPT ![c] = "idle"]
    /\ UNCHANGED <<outsidePool, root_left, confVars, poolVars, held,
                   exit, returned, jpc,
                   shutdown_event, spc, budget>>

\* SessionManager.get_session: the body ends (normally, by an exception, by
\* cancellation); the except and finally clauses run.
ScopeExit(c, kind) ==
    /\ pc[c] = "body"
    /\ LoopFree(c)
    /\ pc' = [pc EXCEPT ![c] = "released"]
    /\ exit' = [exit EXCEPT ![c] = kind]
    /\ returned' = [returned EXCEPT ![c] = scope_returns(held[c], kind)]
    /\ SetPool(apply_returns(Pool, scope_returns(held[c], kind)), held)
    /\ UNCHANGED <<outsidePool, root_left, confVars, held, jpc,
                   shutdown_event, spc, budget>>

\* The scope is left: the caller has its result or its exception.
ScopeEnd(c) ==
    /\ pc[c] = "released"
    /\ LoopFree(c)
    /\ pc' = [pc EXCEPT ![c] = "idle"]
    /\ held' = [held EXCEPT ![c] = NoSession]
    /\ exit' = [exit EXCEPT ![c] = "none"]
    /\ returned' = [returned EXCEPT ![c] = <<>>]
    /\ SetPool(Pool, held')
    /\ UNCHANGED <<outsidePool, root_left, confVars, jpc,
                   shutdown_event, spc, budget>>

\* _health_check_loop: the loop condition, at thread start and after each wait.
JanitorWake ==
    /\ jpc = "wait"
    /\ jpc' = IF shutdown_event THEN "exited" ELSE "cleanup"
    /\ UNCHANGED <<outsidePool, root_left, confVars, poolVars,
                   callerVars, shutdown_event, spc, budget>>

JanitorCleanup(Old, Unused) ==
    /\ jpc = "cleanup"
    /\ Old \subseteq sessions
    /\ Unused \subseteq sessions
    /\ jpc' = "maintain"
    /\ SetPool(cleanup_expired_sessions(Pool, Old, Unused), held)
    /\ UNCHANGED <<outsidePool, root_left, confVars, callerVars,
                   shutdown_event, spc, budget>>

\* _maintain_pool_size: of the `needed` creations k succeed.
JanitorMaintain(k) ==
    /\ jpc = "maintain"
    /\ k <= needed(Pool, min_pool_size)
    /\ k <= Cardinality(FreeIds)
    /\ jpc' = "wait"
    /\ SetPool(add_idle_sessions(Pool, FirstFree(FreeIds, k)), held)
    /\ UNCHANGED <<outsidePool, root_left, confVars, callerVars,
                   shutdown_event, spc, budget>>

\* shutdown: the event is set.
ShutdownSet ==
    /\ spc \in {"none", "closed"}
    /\ root_left > 0
    /\ root_left' = root_left - 1
    /\ spc' = "joining"
    /\ shutdown_event' = TRUE
    /\ UNCHANGED <<outsidePool, confVars, poolVars, callerVars, jpc, budget>>

\* shutdown: join(timeout=5) returns, because the janitor has exited or
\* because five seconds have passed.  A janitor that waits on the event wakes
\* at once; one in the middle of a pass (closing and creating browsers) may
\* take longer than the five seconds.
ShutdownJoin ==
    /\ spc = "joining"
    /\ jpc \in {"exited", "cleanup", "maintain"}
    /\ spc' = "draining"
    /\ UNCHANGED <<outsidePool, root_left, confVars, poolVars,
                   callerVars, jpc, shutdown_event, budget>>

\* shutdown: every session of the mapping is removed.
ShutdownDrain ==
    /\ spc = "draining"
    /\ spc' = "done"
    /\ SetPool(remove_all(Pool, sessions), held)
    /\ UNCHANGED <<outsidePool, root_left, confVars, callerVars, jpc,
                   shutdown_event, budget>>

\* ResourceManager.shutdown: SessionManager.shutdown has returned; the HTTP
\* connection pool is closed and the call returns.
RootClose ==
    /\ spc = "done"
    /\ spc' = "closed"
    /\ UNCHANGED <<outsidePool, root_left, confVars, poolVars, callerVars, jpc,
                   shutdown_event, budget>>

Next ==
    \/ \E c \in Callers, sid \in IDs : GetIdle(c, sid)
    \/ \E c \in Callers, sid \in IDs : GetCreate(c, sid)
    \/ \E c \in Callers : GetCreateFail(c)
    \/ \E c \in Callers : GetFull(c)
    \/ \E c \in Callers : GetTimeout(c)
    \/ \E c \in Callers : Raised(c)
    \/ \E c \in Callers, kind \in ExitKinds : ScopeExit(c, kind)
    \/ \E c \in Callers : ScopeEnd(c)
    \/ JanitorWake
    \/ \E Old \in SUBSET IDs, Unused \in SUBSET IDs : JanitorCleanup(Old, Unused)
    \/ \E k \in 0..Cardinality(IDs) : JanitorMaintain(k)
    \/ ShutdownSet
    \/ ShutdownJoin
    \/ ShutdownDrain
    \/ RootClose

Spec == Init /\ [][Next]_vars

SpecLoop == InitLoop /\ [][Next]_vars

SpecWorn == InitWorn /\ [][Next]_vars

(***************************************************************************)
(* The batch calls                                                         *)
(***************************************************************************)

poolSide ==
    <<confVars, poolVars, callerVars, jpc, shutdown_event, spc, budget,
      root_left, authVars, monVars, retryVars, opVars, cleanVars,
      restVars>>

\* A client with its AsyncBrowserManager; no SessionPool call is made.
InitBatch ==
    /\ Constructed(Configs, 0, 0) /\ oneLoop = TRUE
    /\ AsyncConstructed /\ MonIdle

Started(i) == tasks[i] # "new"
AllStarted == \A j \in 1..b_n : Started(j)
NoneStarted == \A j \in 1..b_n : ~Started(j)
AllDone == \A j \in 1..b_n : tasks[j] = "done"

\* The job ends: its task is done with this return value or exception.
Finish(i, kind) ==
    /\ tasks' = [tasks EXCEPT ![i] = "done"]
    /\ outcome' = [outcome EXCEPT ![i] = Outcome(i, kind)]
    /\ order' = Append(order, i)

\* get_browser once the lock is held (q is the lock with the job at its
\* head): pop an idle browser and leave the lock, or start create_browser in
\* the executor and await it, the lock held.
InLock(i, q) ==
    IF browser_pool # <<>>
    THEN /\ tasks' = [tasks EXCEPT ![i] = "working"]
         /\ task_browser' = [task_browser EXCEPT ![i] = pool_pop(browser_pool).browser]
         /\ browser_pool' = pool_pop(browser_pool).rest
         /\ pool_lock' = lock_release(q)
         /\ woke' = lock_waker(q, i)
    ELSE /\ tasks' = [tasks EXCEPT ![i] = "creating"]
         /\ pool_lock' = q
         /\ woke' = 0
         /\ UNCHANGED <<task_browser, browser_pool>>

\* The finally clause of a job: return_browser, with the return value or the
\* exception of the job in hand.
ReturnBrowser(i, kind) ==
    IF lock_free(pool_lock)
    THEN /\ browser_pool' = pool_append(browser_pool, task_browser[i])
         /\ handed' = [handed EXCEPT ![i] = @ + 1]
         /\ Finish(i, kind)
         /\ UNCHANGED pool_lock
    ELSE /\ tasks' = [tasks EXCEPT ![i] = "lock_ret"]
         /\ pool_lock' = lock_wait(pool_lock, i)
         /\ outcome' = [outcome EXCEPT ![i] = Outcome(i, kind)]
         /\ UNCHANGED <<browser_pool, handed, order>>

\* A batch method is called with a list of n inputs: the coroutines are made
\* and gather wraps each in a task.
BatchStart(kind, n) ==
    /\ b_state = "idle"
    /\ b_left > 0
    /\ b_state' = "running"
    /\ b_kind' = kind
    /\ b_n' = n
    /\ tasks' = [i \in Jobs |-> IF i <= n THEN "new" ELSE "none"]
    /\ UNCHANGED <<b_left, results, task_browser, cancel_req, handed, outcome,
                   order, mgrVars, poolSide>>

\* The first step of a job, the tasks in the order gather made them: up to
\* its first await that suspends.
JobStart(i) ==
    /\ b_state = "running"
    /\ i <= b_n
    /\ tasks[i] = "new"
    /\ ~cancel_req[i]
    /\ \A j \in 1..(i - 1) : Started(j)
    /\ IF b_kind = "operations"
       THEN /\ tasks' = [tasks EXCEPT ![i] = "working"]
            /\ UNCHANGED <<task_browser, browser_pool, pool_lock, woke>>
       ELSE IF lock_free(pool_lock)
            THEN InLock(i, <<i>>)
            ELSE /\ tasks' = [tasks EXCEPT ![i] = "lock_get"]
                 /\ pool_lock' = lock_wait(pool_lock, i)
                 /\ UNCHANGED <<task_browser, browser_pool, woke>>
    /\ UNCHANGED <<batchCtl, cancel_req, handed, outcome, order, created,
                   detached, poolSide>>

\* get_browser: the job waited for the lock and now has it.
JobLocked(i) ==
    /\ tasks[i] = "lock_get"
    /\ ~cancel_req[i]
    /\ AllStarted
    /\ lock_mine(pool_lock, i)
    /\ InLock(i, pool_lock)
    /\ UNCHANGED <<batchCtl, cancel_req, handed, outcome, order, created,
                   detached, poolSide>>

\* get_browser: create_browser has ended in the executor.  With a browser the
\* job goes on into its try block, up to the await of its blocking call; an
\* exception of create_browser leaves get_browser and the job, outside the
\* try block.
JobCreated(i, ok) ==
    /\ tasks[i] = "creating"
    /\ ~cancel_req[i]
    /\ AllStarted
    /\ pool_lock' = lock_release(pool_lock)
    /\ woke' = IF ok THEN lock_waker(pool_lock, i) ELSE 0
    /\ IF ok
       THEN /\ created' = created + 1
            /\ task_browser' = [task_browser EXCEPT ![i] = created + 1]
            /\ tasks' = [tasks EXCEPT ![i] = "working"]
            /\ UNCHANGED <<outcome, order, cancel_req>>
       ELSE /\ Finish(i, "error")
            /\ cancel_req' = child_failed(cancel_req, i, b_n)
            /\ UNCHANGED <<created, task_browser>>
    /\ UNCHANGED <<batchCtl, handed, browser_pool, detached, poolSide>>

\* The awaited call of the job has ended.  An operation of
\* parallel_operations returns a value or raises; a job of create_alerts_batch
\* returns the value of its call or, after `except Exception`, False, and
\* then runs its finally clause.
JobWorked(i, kind) ==
    /\ tasks[i] = "working"
    /\ ~cancel_req[i]
    /\ AllStarted
    /\ woke # i
    /\ IF b_kind = "operations"
       THEN /\ kind \in {"value", "error"}
            /\ Finish(i, kind)
            /\ cancel_req' = IF kind = "error"
                             THEN child_failed(cancel_req, i, b_n)
                             ELSE cancel_req
            /\ UNCHANGED <<browser_pool, pool_lock, handed>>
       ELSE /\ kind \in {"value", "false"}
            /\ ReturnBrowser(i, kind)
            /\ UNCHANGED cancel_req
    /\ UNCHANGED <<batchCtl, task_browser, woke, created, detached, poolSide>>

\* return_browser: the job waited for the lock and now has it.
JobReturned(i) ==
    /\ tasks[i] = "lock_ret"
    /\ ~cancel_req[i]
    /\ lock_mine(pool_lock, i)
    /\ browser_pool' = pool_append(browser_pool, task_browser[i])
    /\ pool_lock' = lock_release(pool_lock)
    /\ woke' = 0
    /\ handed' = [handed EXCEPT ![i] = @ + 1]
    /\ tasks' = [tasks EXCEPT ![i] = "done"]
    /\ order' = Append(order, i)
    /\ UNCHANGED <<batchCtl, task_browser, cancel_req, outcome, created,
                   detached, poolSide>>

\* The caller's task is cancelled while it awaits the gather: gather cancels
\* every task that is not done.  This happens before the first job has run or
\* after the last has started.
BatchCancel ==
    /\ b_state = "running"
    /\ AllStarted \/ NoneStarted
    /\ ~AllDone
    /\ b_state' = "cancelling"
    /\ cancel_req' = [i \in Jobs |-> i <= b_n /\ tasks[i] # "done"]
    /\ UNCHANGED <<b_kind, b_n, b_left, results, tasks, task_browser, handed,
                   outcome, order, mgrVars, poolSide>>

\* The next step of a cancelled job: CancelledError is raised at the await the
\* job is suspended in.  It passes `except Exception`; a finally clause runs.
\* (A create_browser call that runs in the executor when its get_browser is
\* cancelled goes on in its thread; no task and no list refers to its browser.)
Cancel(i) ==
    /\ cancel_req[i]
    /\ cancel_req' = [cancel_req EXCEPT ![i] = FALSE]
    /\ woke' = IF tasks[i] \in {"lock_get", "lock_ret", "creating"} /\ lock_mine(pool_lock, i)
               THEN 0 ELSE woke
    /\ CASE tasks[i] = "new" ->
              /\ Finish(i, "cancelled")
              /\ UNCHANGED <<browser_pool, pool_lock, handed>>
         [] tasks[i] = "lock_get" ->
              /\ Finish(i, "cancelled")
              /\ pool_lock' = lock_leave(pool_lock, i)
              /\ UNCHANGED <<browser_pool, handed>>
         [] tasks[i] = "creating" ->
              /\ Finish(i, "cancelled")
              /\ pool_lock' = lock_release(pool_lock)
              /\ UNCHANGED <<browser_pool, handed>>
         [] tasks[i] = "working" /\ b_kind = "operations" ->
              /\ Finish(i, "cancelled")
              /\ UNCHANGED <<browser_pool, pool_lock, handed>>
         [] tasks[i] = "working" /\ b_kind # "operations" ->
              /\ ReturnBrowser(i, "cancelled")
         [] tasks[i] = "lock_ret" ->
              /\ Finish(i, "cancelled")
              /\ pool_lock' = lock_leave(pool_lock, i)
              /\ UNCHANGED <<browser_pool, handed>>
    /\ UNCHANGED <<batchCtl, task_browser, created, poolSide>>

\* The cancellation of a job, the worker threads left aside.
JobCancelled(i) == Cancel(i) /\ UNCHANGED detached

\* Every task is done: the gather ends, with the list of the outcomes or,
\* when it was cancelled, with CancelledError.
Gather ==
    /\ b_state \in {"running", "cancelling"}
    /\ AllDone
    /\ IF b_state = "running"
       THEN /\ b_state' = "gathered"
            /\ results' = gather_results(b_n, outcome, order)
       ELSE /\ b_state' = "raised"
            /\ results' = <<>>
    /\ UNCHANGED <<b_kind, b_n, b_left, jobVars, mgrVars, poolSide>>

\* The caller has the list or the error; the tasks are gone.
BatchEnd ==
    /\ b_state \in {"gathered", "raised"}
    /\ b_state' = "idle"
    /\ b_kind' = "none"
    /\ b_n' = 0
    /\ b_left' = b_left - 1
    /\ results' = <<>>
    /\ tasks' = [i \in Jobs |-> "none"]
    /\ task_browser' = [i \in Jobs |-> NoBrowser]
    /\ handed' = [i \in Jobs |-> 0]
    /\ outcome' = [i \in Jobs |-> Pending]
    /\ order' = <<>>
    /\ UNCHANGED <<cancel_req, mgrVars, poolSide>>

NextBatch ==
    \/ \E kind \in BatchKinds, n \in 0..MaxJobs : BatchStart(kind, n)
    \/ \E i \in Jobs : JobStart(i)
    \/ \E i \in Jobs : JobLocked(i)
    \/ \E i \in Jobs, ok \in BOOLEAN : JobCreated(i, ok)
    \/ \E i \in Jobs, kind \in {"value", "false", "error"} : JobWorked(i, kind)
    \/ \E i \in Jobs : JobReturned(i)
    \/ BatchCancel
    \/ \E i \in Jobs : JobCancelled(i)
    \/ Gather
    \/ BatchEnd

SpecBatch == InitBatch /\ [][NextBatch]_vars

(***************************************************************************)
(* create_alerts_batch with the worker threads of the executor             *)
(***************************************************************************)

InitDetach ==
    /\ Constructed({<<0, 1>>}, 0, 0) /\ oneLoop = TRUE
    /\ AsyncConstructed /\ MonIdle

\* The cancellation of a job with its worker thread: the blocking call of a
\* job of create_alerts_batch goes on in its thread, on the browser that the
\* finally clause returns.
JobDetached(i) ==
    /\ Cancel(i)
    /\ detached' = still_running(detached, tasks[i], b_kind, task_browser[i])

\* The call that a cancelled job left running in the executor has ended.
ExecutorDone(b) ==
    /\ b \in detached
    /\ detached' = detached \ {b}
    /\ UNCHANGED <<batchCtl, jobVars, browser_pool, pool_lock, woke, created,
                   poolSide>>

NextDetach ==
    \/ \E n \in 1..MaxDetachJobs : BatchStart("alerts", n)
    \/ \E i \in Jobs : JobStart(i)
    \/ \E i \in Jobs : JobLocked(i)
    \/ \E i \in Jobs, ok \in BOOLEAN : JobCreated(i, ok)
    \/ \E i \in Jobs, kind \in {"value", "false"} : JobWorked(i, kind)
    \/ \E i \in Jobs : JobReturned(i)
    \/ BatchCancel
    \/ \E i \in Jobs : JobDetached(i)
    \/ \E b \in 1..MaxJobs : ExecutorDone(b)
    \/ Gather
    \/ BatchEnd

SpecDetach == InitDetach /\ [][NextDetach]_vars

(***************************************************************************)
(* The calls of get_authenticated_session                                  *)
(***************************************************************************)

\* The callers are tasks of one event loop that drive the generator.
InitAuth ==
    /\ Constructed(Configs, MaxCalls, 0) /\ oneLoop = TRUE
    /\ AsyncConstructed /\ MonIdle

notAuth ==
    <<confVars, jpc, shutdown_event, spc, budget, root_left, batchVars,
      monVars, retryVars, opVars, cleanVars,
      restVars>>

\* The body of `async with self.get_session() as session` is entered and the
\* session is authenticated for the username: it is yielded without login.
AuthSkip(c, username) ==
    /\ pc[c] = "body"
    /\ want[c] = NoUser
    /\ LoopFree(c)
    /\ ~needs_login(obj[held[c]], username)
    /\ want' = [want EXCEPT ![c] = username]
    /\ yielded' = [yielded EXCEPT ![c] = TRUE]
    /\ UNCHANGED <<notAuth, poolVars, callerVars, login_result>>

\* The same when login is called.  After True the fields are set and the
\* session is yielded; after False RuntimeError leaves the body, and the
\* except and finally clauses of get_session run.
AuthLogin(c, username, ok) ==
    /\ pc[c] = "body"
    /\ want[c] = NoUser
    /\ LoopFree(c)
    /\ needs_login(obj[held[c]], username)
    /\ want' = [want EXCEPT ![c] = username]
    /\ LET r == login(obj[held[c]], username, ok)
       IN IF r.result
          THEN /\ login_result' = [login_result EXCEPT ![c] = "true"]
               /\ yielded' = [yielded EXCEPT ![c] = TRUE]
               /\ obj' = [obj EXCEPT ![held[c]] = authenticated(r.obj, username)]
               /\ UNCHANGED <<sessions, available, callerVars>>
          ELSE /\ login_result' = [login_result EXCEPT ![c] = "false"]
               /\ pc' = [pc EXCEPT ![c] = "released"]
               /\ exit' = [exit EXCEPT ![c] = "exception"]
               /\ returned' =
                     [returned EXCEPT ![c] = scope_returns(held[c], "exception")]
               /\ SetPool(apply_returns([Pool EXCEPT !.obj[held[c]] = r.obj],
                                        scope_returns(held[c], "exception")),
                          held)
               /\ UNCHANGED <<held, yielded>>
    /\ UNCHANGED notAuth

\* The generator is resumed, thrown into or closed after its yield: the body
\* of the get_session scope ends.
AuthExit(c, kind) ==
    /\ pc[c] = "body"
    /\ yielded[c]
    /\ LoopFree(c)
    /\ pc' = [pc EXCEPT ![c] = "released"]
    /\ exit' = [exit EXCEPT ![c] = kind]
    /\ returned' = [returned EXCEPT ![c] = scope_returns(held[c], kind)]
    /\ SetPool(apply_returns(Pool, scope_returns(held[c], kind)), held)
    /\ UNCHANGED <<notAuth, held, authVars>>

\* The call is over.
AuthEnd(c) ==
    /\ pc[c] = "released"
    /\ LoopFree(c)
    /\ pc' = [pc EXCEPT ![c] = "idle"]
    /\ held' = [held EXCEPT ![c] = NoSession]
    /\ exit' = [exit EXCEPT ![c] = "none"]
    /\ returned' = [returned EXCEPT ![c] = <<>>]
    /\ want' = [want EXCEPT ![c] = NoUser]
    /\ yielded' = [yielded EXCEPT ![c] = FALSE]
    /\ login_result' = [login_result EXCEPT ![c] = "none"]
    /\ SetPool(Pool, held')
    /\ UNCHANGED notAuth

NextAuth ==
    \/ \E c \in Callers, sid \in IDs : GetIdle(c, sid)
    \/ \E c \in Callers, sid \in IDs : GetCreate(c, sid)
    \/ \E c \in Callers : GetCreateFail(c)
    \/ \E c \in Callers : GetFull(c)
    \/ \E c \in Callers : GetTimeout(c)
    \/ \E c \in Callers : Raised(c)
    \/ \E c \in Callers, username \in Users : AuthSkip(c, username)
    \/ \E c \in Callers, username \in Users, ok \in BOOLEAN :
          AuthLogin(c, username, ok)
    \/ \E c \in Callers, kind \in ExitKinds : AuthExit(c, kind)
    \/ \E c \in Callers : AuthEnd(c)
    \/ JanitorWake
    \/ \E Old \in SUBSET IDs, Unused \in SUBSET IDs :
          JanitorCleanup(Old, Unused)
    \/ \E k \in 0..Cardinality(IDs) : JanitorMaintain(k)

SpecAuth == InitAuth /\ [][NextAuth]_vars

(***************************************************************************)
(* Properties                                                              *)
(***************************************************************************)

Leased(c) == pc[c] = "body"


(***************************************************************************)
(* PerformanceMonitor and PerformanceTimer: the calls of the threads       *)
(***************************************************************************)

InitMon ==
    /\ Constructed({<<0, 1>>}, 0, 0) /\ oneLoop = FALSE
    /\ AsyncConstructed /\ MonConstructed(MonConfigs, MaxOps)
    /\ RetryConstructed(0) /\ OpsConstructed(0) /\ CleanConstructed(0)
    /\ ModuleLoaded(0)

notMon ==
    <<confVars, poolVars, callerVars, jpc, shutdown_event, spc, budget,
      root_left, batchVars, authVars, retryVars, opVars, cleanVars,
      restVars>>

\* A thread starts a call; it is one of the calls the threads make in all.
Call(t, r) ==
    /\ th[t].pc = "idle"
    /\ mon_left > 0
    /\ mon_left' = mon_left - 1
    /\ th' = [th EXCEPT ![t] = r]

\* record_operation(name, duration, success) is called.
RecordCall(t, name, duration, success) ==
    /\ LET r == [IdleThread EXCEPT
                    !.job = "record", !.name = name, !.duration = duration,
                    !.success = success,
                    !.calls = <<[name |-> name, success |-> success]>>]
       IN /\ Call(t, IF enabled THEN [r EXCEPT !.pc = "enter"]
                     ELSE Finished(r))
          /\ started' = IF enabled THEN [started EXCEPT ![name] = @ + 1]
                        ELSE started
    /\ UNCHANGED <<notMon, monData, cpc, stop_collection, stop_pc, was_reset,
                   fresh, overflows>>

\* `with PerformanceTimer(monitor, name)`: __enter__.
TimerEnter(t, name) ==
    /\ Call(t, [IdleThread EXCEPT
                  !.job = "timer", !.name = name, !.pc = "scope"])
    /\ UNCHANGED <<notMon, monData, cpc, stop_collection, stop_pc, started,
                   was_reset, fresh, overflows>>

\* PerformanceTimer.mark_error inside the scope.
MarkError(t) ==
    /\ th[t].pc = "scope"
    /\ ~th[t].marked
    /\ th' = [th EXCEPT ![t].marked = TRUE]
    /\ UNCHANGED <<notMon, monData, cpc, stop_collection, stop_pc, monHist>>

\* PerformanceTimer.__exit__: the scope is left normally or by an exception,
\* and record_operation is called; __exit__ returns None, so an exception
\* goes on to the caller afterwards.
TimerExit(t, kind, duration) ==
    /\ th[t].pc = "scope"
    /\ LET ok == timer_success(kind, th[t].marked)
           r == [th[t] EXCEPT
                    !.exit = kind, !.duration = duration, !.success = ok,
                    !.calls = Append(@, [name |-> th[t].name,
                                         success |-> ok])]
       IN /\ th' = [th EXCEPT ![t] = IF enabled THEN [r EXCEPT !.pc = "enter"]
                                     ELSE Finished(r)]
          /\ started' = IF enabled THEN [started EXCEPT ![r.name] = @ + 1]
                        ELSE started
    /\ UNCHANGED <<notMon, monData, cpc, stop_collection, stop_pc, was_reset,
                   fresh, overflows, mon_left>>

\* record_operation: the lock is taken, the entry is made when the name has
\* none, and add_timing reads count.
RecordEnter(t) ==
    /\ th[t].pc = "enter"
    /\ lock_acquirable(mon_lock, t)
    /\ mon_lock' = t
    /\ LET st == IF operation_stats[th[t].name].present
                 THEN operation_stats[th[t].name] ELSE NewStats
       IN /\ operation_stats' = [operation_stats EXCEPT ![th[t].name] = st]
          /\ th' = [th EXCEPT ![t].pc = "count", ![t].read = st.count]
    /\ fresh' = FALSE
    /\ UNCHANGED <<notMon, enabled, max_metrics, metrics, clock, cpc,
                   stop_collection, stop_pc, started, was_reset, overflows,
                   mon_left>>

\* add_timing: count, total_time, min_time, max_time and recent_times.
RecordCount(t) ==
    /\ th[t].pc = "count"
    /\ operation_stats' =
          [operation_stats EXCEPT
              ![th[t].name] = add_timing_count(@, th[t].read, th[t].duration)]
    /\ th' = [th EXCEPT ![t].pc = "flag"]
    /\ fresh' = FALSE
    /\ UNCHANGED <<notMon, enabled, max_metrics, metrics, mon_lock, clock,
                   cpc, stop_collection, stop_pc, started, was_reset,
                   overflows, mon_left>>

\* add_timing: success_count or error_count; the lock is released and
\* add_metric is called, which makes its PerformanceMetric.
RecordFlag(t) ==
    /\ th[t].pc = "flag"
    /\ operation_stats' =
          [operation_stats EXCEPT
              ![th[t].name] = add_timing_flag(@, th[t].success)]
    /\ mon_lock' = NoThread
    /\ th' = [th EXCEPT ![t].pc = "metric", ![t].stamp = clock]
    /\ clock' = clock + 1
    /\ fresh' = FALSE
    /\ UNCHANGED <<notMon, enabled, max_metrics, metrics, cpc,
                   stop_collection, stop_pc, started, was_reset, overflows,
                   mon_left>>

\* add_metric(name, value, unit) is called.
AddMetricCall(t, name, value) ==
    /\ Call(t, LET r == [IdleThread EXCEPT
                            !.job = "emit", !.name = name,
                            !.duration = value, !.stamp = clock]
               IN IF enabled THEN [r EXCEPT !.pc = "metric"] ELSE Finished(r))
    /\ clock' = IF enabled THEN clock + 1 ELSE clock
    /\ UNCHANGED <<notMon, enabled, max_metrics, metrics, operation_stats,
                   mon_lock, cpc, stop_collection, stop_pc, started,
                   was_reset, fresh, overflows>>

\* add_metric: the append under the lock.
Metric(t) ==
    /\ th[t].pc = "metric"
    /\ lock_acquirable(mon_lock, t)
    /\ metrics' =
          deque_append(metrics,
                       PerformanceMetric(IF th[t].job = "emit" THEN "metric"
                                         ELSE "operation",
                                         th[t].name, th[t].duration,
                                         th[t].stamp),
                       max_metrics)
    /\ th' = [th EXCEPT ![t] = Finished(@)]
    /\ fresh' = FALSE
    /\ overflows' = overflows + full(metrics, max_metrics)
    /\ UNCHANGED <<notMon, enabled, max_metrics, operation_stats, mon_lock,
                   clock, cpc, stop_collection, stop_pc, started, was_reset,
                   mon_left>>

\* get_operation_stats(): a read, made any number of times.
GetOperationStats(t) ==
    /\ lock_acquirable(mon_lock, t)
    /\ th[t].pc = "idle"
    /\ th' = [th EXCEPT ![t] = Finished([IdleThread EXCEPT
                            !.job = "stats",
                            !.seen = get_operation_stats(operation_stats),
                            !.seen_fresh = fresh])]
    /\ UNCHANGED <<notMon, monData, cpc, stop_collection, stop_pc, monHist>>

\* get_metrics().
GetMetrics(t) ==
    /\ lock_acquirable(mon_lock, t)
    /\ th[t].pc = "idle"
    /\ th' = [th EXCEPT ![t] = Finished([IdleThread EXCEPT
                            !.job = "metrics",
                            !.seen = get_metrics(metrics),
                            !.seen_fresh = fresh])]
    /\ UNCHANGED <<notMon, monData, cpc, stop_collection, stop_pc, monHist>>

\* reset_stats().
ResetStats(t) ==
    /\ lock_acquirable(mon_lock, t)
    /\ Call(t, Finished([IdleThread EXCEPT !.job = "reset"]))
    /\ metrics' = reset_stats(metrics, operation_stats).metrics
    /\ operation_stats' = reset_stats(metrics, operation_stats).stats
    /\ was_reset' = TRUE
    /\ fresh' = TRUE
    /\ UNCHANGED <<notMon, enabled, max_metrics, mon_lock, clock, cpc,
                   stop_collection, stop_pc, started, overflows>>

\* The thread goes on to its next call.
ThreadEnd(t) ==
    /\ th[t].pc = "done"
    /\ th' = [th EXCEPT ![t] = IdleThread]
    /\ UNCHANGED <<notMon, monData, cpc, stop_collection, stop_pc, monHist>>

\* _collect_system_metrics: one add_metric of the collection thread.
CollectEmit ==
    /\ cpc = "collect"
    /\ mon_left > 0
    /\ mon_left' = mon_left - 1
    /\ lock_acquirable(mon_lock, "collector")
    /\ metrics' = deque_append(metrics,
                               PerformanceMetric("system", "cpu", 0, clock),
                               max_metrics)
    /\ clock' = clock + 1
    /\ fresh' = FALSE
    /\ overflows' = overflows + full(metrics, max_metrics)
    /\ UNCHANGED <<notMon, enabled, max_metrics, operation_stats, mon_lock,
                   monThreads, started, was_reset>>

\* _cleanup_old_metrics drops the metrics older than the retention, in a pass
\* that finds such metrics.
CollectCleanup(cutoff) ==
    /\ cpc = "collect"
    /\ lock_acquirable(mon_lock, "collector")
    /\ metrics' = cleanup_old_metrics(metrics, cutoff)
    /\ metrics' # metrics
    /\ UNCHANGED <<notMon, enabled, max_metrics, operation_stats, mon_lock,
                   clock, monThreads, monHist>>

\* The loop tests the event, after its wait or between two passes, and ends.
CollectExit ==
    /\ cpc = "collect"
    /\ stop_collection
    /\ cpc' = "exited"
    /\ UNCHANGED <<notMon, monData, th, stop_collection, stop_pc, monHist>>

\* PerformanceMonitor.stop: the event is set.  It is one of the calls made
\* on the monitor.
MonStop ==
    /\ stop_pc = "none"
    /\ mon_left > 0
    /\ mon_left' = mon_left - 1
    /\ stop_collection' = TRUE
    /\ stop_pc' = IF cpc = "none" THEN "stopped" ELSE "joining"
    /\ UNCHANGED <<notMon, monData, th, cpc, started, was_reset, fresh,
                   overflows>>

\* stop: join(timeout=5) returns, because the thread has exited or, when a
\* collection takes long, because five seconds have passed.
MonStopJoin ==
    /\ stop_pc = "joining"
    /\ cpc \in {"exited", "collect"}
    /\ stop_pc' = "stopped"
    /\ UNCHANGED <<notMon, monData, th, cpc, stop_collection, monHist>>

NextMon ==
    \/ \E t \in Threads, name \in Names, d \in Durations, ok \in BOOLEAN :
          RecordCall(t, name, d, ok)
    \/ \E t \in Threads, name \in Names : TimerEnter(t, name)
    \/ \E t \in Threads : MarkError(t)
    \/ \E t \in Threads, kind \in {"normal", "exception"}, d \in Durations :
          TimerExit(t, kind, d)
    \/ \E t \in Threads : RecordEnter(t)
    \/ \E t \in Threads : RecordCount(t)
    \/ \E t \in Threads : RecordFlag(t)
    \/ \E t \in Threads, name \in Names, d \in Durations :
          AddMetricCall(t, name, d)
    \/ \E t \in Threads : Metric(t)
    \/ \E t \in Threads : GetOperationStats(t)
    \/ \E t \in Threads : GetMetrics(t)
    \/ \E t \in Threads : ResetStats(t)
    \/ \E t \in Threads : ThreadEnd(t)
    \/ CollectEmit
    \/ \E cutoff \in 0..clock : CollectCleanup(cutoff)
    \/ CollectExit
    \/ MonStop
    \/ MonStopJoin

SpecMon == InitMon /\ [][NextMon]_vars

(***************************************************************************)
(* The metrics and their age                                               *)
(***************************************************************************)

InitAge ==
    /\ Constructed({<<0, 1>>}, 0, 0) /\ oneLoop = FALSE
    /\ AsyncConstructed /\ MonConstructed({<<TRUE, 2>>, <<FALSE, 2>>}, MaxOps)
    /\ RetryConstructed(0) /\ OpsConstructed(0) /\ CleanConstructed(0)
    /\ ModuleLoaded(0)

notAge ==
    <<confVars, poolVars, callerVars, jpc, shutdown_event, spc, budget,
      root_left, batchVars, authVars, retryVars, opVars, cleanVars,
      lockVars, globVars>>

\* Time passes, no call of add_metric being under way: the metrics stamped
\* before h are now older than retention_hours.
Age(h) ==
    /\ h > horizon
    /\ h <= clock
    /\ \A t \in Threads : th[t].pc # "metric"
    /\ horizon' = h
    /\ UNCHANGED <<notAge, monVars>>

\* _cleanup_old_metrics in a pass of the collection thread, with
\* cutoff_time = now - retention.
CollectCleanupOld ==
    /\ cpc = "collect"
    /\ lock_acquirable(mon_lock, "collector")
    /\ metrics' = cleanup_old_metrics(metrics, horizon)
    /\ metrics' # metrics
    /\ UNCHANGED <<notMon, enabled, max_metrics, operation_stats, mon_lock,
                   clock, monThreads, monHist>>

NextAge ==
    \/ \E t \in Threads, name \in Names, d \in Durations :
          AddMetricCall(t, name, d)
    \/ \E t \in Threads : Metric(t)
    \/ \E t \in Threads : ThreadEnd(t)
    \/ CollectEmit
    \/ CollectCleanupOld
    \/ CollectExit
    \/ MonStop
    \/ MonStopJoin
    \/ \E h \in 1..(2 * MaxOps) : Age(h)

SpecAge == InitAge /\ [][NextAge]_vars

(***************************************************************************)
(* initialize_performance_monitoring, cleanup_performance_monitoring       *)
(***************************************************************************)

InitGlobal ==
    /\ Constructed({<<0, 1>>}, 0, 0) /\ oneLoop = FALSE
    /\ AsyncConstructed /\ MonConstructed({<<TRUE, 1>>}, 0)
    /\ RetryConstructed(0) /\ OpsConstructed(0) /\ CleanConstructed(0)
    /\ ModuleLoaded(MaxInitCalls)

notGlobal ==
    <<confVars, poolVars, callerVars, jpc, shutdown_event, spc, budget,
      root_left, batchVars, authVars, monVars, retryVars, opVars, cleanVars,
      lockVars, ageVars>>

\* initialize_performance_monitoring(config) is called, config with
\* performance_monitoring = on, and tests `_global_monitor is None`.
InitializeCall(t, on) ==
    /\ ini[t].pc \in {"idle", "done"}
    /\ init_left > 0
    /\ init_left' = init_left - 1
    /\ ini' = [ini EXCEPT ![t] =
                  [NoInit EXCEPT
                      !.on = on,
                      !.pc = IF is_none(global_monitor) THEN "construct"
                             ELSE "return"]]
    /\ UNCHANGED <<notGlobal, global_monitor, monitors, sampling, cleanups>>

\* PerformanceMonitor(config): a new monitor, its collection thread started
\* when it is enabled.
Construct(t) ==
    /\ ini[t].pc = "construct"
    /\ monitors' = monitors + 1
    /\ sampling' = IF ini[t].on THEN sampling \cup {monitors + 1} ELSE sampling
    /\ ini' = [ini EXCEPT ![t].pc = "store", ![t].mine = monitors + 1]
    /\ UNCHANGED <<notGlobal, global_monitor, cleanups, init_left>>

\* The assignment to _global_monitor.
Store(t) ==
    /\ ini[t].pc = "store"
    /\ global_monitor' = ini[t].mine
    /\ ini' = [ini EXCEPT ![t].pc = "return"]
    /\ UNCHANGED <<notGlobal, monitors, sampling, cleanups, init_left>>

\* `return _global_monitor`: the global is read again.
ReturnGlobal(t) ==
    /\ ini[t].pc = "return"
    /\ ini' = [ini EXCEPT ![t].pc = "done", ![t].got = global_monitor]
    /\ UNCHANGED <<notGlobal, global_monitor, monitors, sampling, cleanups,
                   init_left>>

\* cleanup_performance_monitoring(): the global monitor, when there is one,
\* is stopped and the global set to None.
CleanupGlobal ==
    /\ init_left > 0
    /\ init_left' = init_left - 1
    /\ cleanups' = cleanups + 1
    /\ sampling' = sampling \ {global_monitor}
    /\ global_monitor' = 0
    /\ UNCHANGED <<notGlobal, monitors, ini>>

NextGlobal ==
    \/ \E t \in Threads, on \in BOOLEAN : InitializeCall(t, on)
    \/ \E t \in Threads : Construct(t)
    \/ \E t \in Threads : Store(t)
    \/ \E t \in Threads : ReturnGlobal(t)
    \/ CleanupGlobal

SpecGlobal == InitGlobal /\ [][NextGlobal]_vars


(***************************************************************************)
(* TimingManager.retry_on_failure and progressive_delay                    *)
(***************************************************************************)

InitRetry ==
    /\ Constructed({<<0, 1>>}, 0, 0) /\ oneLoop = FALSE
    /\ AsyncConstructed /\ MonConstructed({<<TRUE, 1>>}, 0)
    /\ RetryConstructed(MaxRetryCalls) /\ OpsConstructed(0)
    /\ CleanConstructed(0) /\ ModuleLoaded(0)

notRetry ==
    <<confVars, poolVars, callerVars, jpc, shutdown_event, spc, budget,
      root_left, batchVars, authVars, monVars, opVars, cleanVars,
      restVars>>

\* The for loop of retry_on_failure goes to the attempt, or is over: then
\* `raise last_exception` raises it, or TypeError when it is None.
LoopTo(r, attempt) ==
    IF attempt \in attempts(r.max_retries)
    THEN [r EXCEPT !.pc = "try", !.attempt = attempt]
    ELSE [r EXCEPT
            !.pc = "raised",
            !.out = IF r.last_exception = NoException
                    THEN [kind |-> "TypeError", attempt |-> -1]
                    ELSE r.last_exception]

\* retry_on_failure(func, max_retries, delay, exceptions) is called.
RetryCall(max_retries, delay, exceptions) ==
    /\ rt.pc = "idle"
    /\ retry_left > 0
    /\ retry_left' = retry_left - 1
    /\ rt' = LoopTo([NoRetry EXCEPT
                        !.max_retries = max_retries, !.delay = delay,
                        !.exceptions = exceptions], 0)
    /\ UNCHANGED notRetry

\* One pass of the loop up to the sleep: func() is called and returns, or
\* raises what the except clause catches or lets through.
RetryAttempt(res) ==
    /\ rt.pc = "try"
    /\ LET e == [kind |-> res, attempt |-> rt.attempt]
           r == [rt EXCEPT !.log = Append(@, e)]
       IN rt' =
            IF res = "value" THEN [r EXCEPT !.pc = "returned", !.out = e]
            ELSE IF ~caught(res, rt.exceptions)
            THEN [r EXCEPT !.pc = "raised", !.out = e]
            ELSE IF rt.attempt < rt.max_retries
            THEN [r EXCEPT !.pc = "sleep", !.last_exception = e]
            ELSE LoopTo([r EXCEPT !.last_exception = e], rt.attempt + 1)
    /\ UNCHANGED <<notRetry, retry_left>>

\* time.sleep(delay), and the loop goes on.
RetrySleep ==
    /\ rt.pc = "sleep"
    /\ rt' = LoopTo([rt EXCEPT
                        !.slept = Append(@, retry_delay(rt.delay, rt.attempt))],
                    rt.attempt + 1)
    /\ UNCHANGED <<notRetry, retry_left>>

\* progressive_delay(attempt, base_delay) is called and sleeps.
ProgressiveDelay(attempt, base_delay) ==
    /\ rt.pc = "idle"
    /\ retry_left > 0
    /\ retry_left' = retry_left - 1
    /\ rt' = [NoRetry EXCEPT
                !.pc = "delayed", !.attempt = attempt, !.delay = base_delay,
                !.slept = <<progressive_delay(attempt, base_delay)>>]
    /\ UNCHANGED notRetry

\* The caller goes on.
RetryEnd ==
    /\ rt.pc \in {"returned", "raised", "delayed"}
    /\ rt' = NoRetry
    /\ UNCHANGED <<notRetry, retry_left>>

NextRetry ==
    \/ \E m \in -1..MaxRetries, d \in Delays, ex \in ExceptionTuples :
          RetryCall(m, d, ex)
    \/ \E res \in CallOutcomes : RetryAttempt(res)
    \/ RetrySleep
    \/ \E a \in 0..MaxRetries, d \in Delays : ProgressiveDelay(a, d)
    \/ RetryEnd

SpecRetry == InitRetry /\ [][NextRetry]_vars


(***************************************************************************)
(* AsyncBrowserManager: the element operations                             *)
(***************************************************************************)

InitOps ==
    /\ Constructed({<<0, 1>>}, 0, 0) /\ oneLoop = TRUE
    /\ AsyncConstructed /\ MonConstructed({<<TRUE, 1>>}, 0)
    /\ RetryConstructed(0) /\ OpsConstructed(MaxBrowserOps)
    /\ CleanConstructed(0) /\ ModuleLoaded(0)

notOps ==
    <<confVars, poolVars, callerVars, jpc, shutdown_event, spc, budget,
      root_left, batchVars, authVars, monVars, retryVars, cleanVars,
      restVars>>

\* A task calls an operation and awaits it: its function goes to the
\* executor.
OpCall(i, op, clear_first) ==
    /\ bo[i].pc = "idle"
    /\ op = "type_text" \/ ~clear_first
    /\ ops_left > 0
    /\ ops_left' = ops_left - 1
    /\ bo' = [bo EXCEPT ![i] = [NoOp EXCEPT
                !.pc = "until", !.op = op, !.clear_first = clear_first,
                !.todo = commands(op, clear_first)]]
    /\ UNCHANGED notOps

\* WebDriverWait(browser, timeout).until(...) ends.
OpUntil(i, res) ==
    /\ bo[i].pc = "until"
    /\ bo' = [bo EXCEPT ![i] = after_call(@, "until", res)]
    /\ UNCHANGED <<notOps, ops_left>>

\* The next command on the element ends.
OpCommand(i, res) ==
    /\ bo[i].pc = "command"
    /\ res \in CommandOutcomes(Head(bo[i].todo))
    /\ bo' = [bo EXCEPT ![i] = after_call([@ EXCEPT !.todo = Tail(@)],
                                          Head(bo[i].todo), res)]
    /\ UNCHANGED <<notOps, ops_left>>

\* The awaiting task has the result, or the exception.
OpEnd(i) ==
    /\ bo[i].pc = "done"
    /\ bo' = [bo EXCEPT ![i] = NoOp]
    /\ UNCHANGED <<notOps, ops_left>>

NextOps ==
    \/ \E i \in OpTasks, op \in BrowserOps, clear_first \in BOOLEAN :
          OpCall(i, op, clear_first)
    \/ \E i \in OpTasks, res \in UntilOutcomes : OpUntil(i, res)
    \/ \E i \in OpTasks,
          res \in {"ok", "TimeoutException", "WebDriverException"} :
          OpCommand(i, res)
    \/ \E i \in OpTasks : OpEnd(i)

SpecOps == InitOps /\ [][NextOps]_vars


(***************************************************************************)
(* AsyncBrowserManager: get_browser, return_browser and cleanup            *)
(***************************************************************************)

InitClean ==
    /\ Constructed({<<0, 1>>}, 0, 0) /\ oneLoop = TRUE
    /\ AsyncConstructed /\ MonConstructed({<<TRUE, 1>>}, 0)
    /\ RetryConstructed(0) /\ OpsConstructed(0)
    /\ CleanConstructed(MaxCleanups) /\ ModuleLoaded(0)

notClean ==
    <<confVars, poolVars, callerVars, jpc, shutdown_event, spc, budget,
      root_left, batchCtl, jobVars, woke, detached, authVars, monVars,
      retryVars, opVars,
      restVars>>

\* get_browser with a browser in the pool.
GetPooled ==
    /\ lock_free(pool_lock)
    /\ browser_pool # <<>>
    /\ browser_pool' = pool_pop(browser_pool).rest
    /\ lent' = lent \cup {pool_pop(browser_pool).browser}
    /\ reused' = reused \cup {pool_pop(browser_pool).browser}
    /\ UNCHANGED <<notClean, pool_lock, created, executor_down, quits, cl,
                   cleanups_left>>

\* get_browser with an empty pool: create_browser runs in the executor and
\* returns a browser.  (When it raises, or when the executor has been shut
\* down, get_browser raises and nothing has changed.)
GetCreated ==
    /\ lock_free(pool_lock)
    /\ browser_pool = <<>>
    /\ ~executor_down
    /\ created < MaxBrowsers
    /\ created' = created + 1
    /\ lent' = lent \cup {created + 1}
    /\ UNCHANGED <<notClean, browser_pool, pool_lock, executor_down, reused,
                   quits, cl, cleanups_left>>

\* return_browser.
ReturnLent(b) ==
    /\ b \in lent
    /\ lock_free(pool_lock)
    /\ browser_pool' = pool_append(browser_pool, b)
    /\ lent' = lent \ {b}
    /\ UNCHANGED <<notClean, pool_lock, created, executor_down, reused, quits,
                   cl, cleanups_left>>

\* cleanup is called and takes the lock.
CleanupStart ==
    /\ cl.pc = "idle"
    /\ cleanups_left > 0
    /\ cleanups_left' = cleanups_left - 1
    /\ lock_free(pool_lock)
    /\ pool_lock' = lock_wait(pool_lock, CleanupTask)
    /\ cl' = [pc |-> "quitting", i |-> 1, seen |-> browser_pool,
              before |-> quits]
    /\ UNCHANGED <<notClean, browser_pool, created, executor_down, lent,
                   reused, quits>>

\* One pass of the for loop: quit is called in the executor, and returns or
\* raises; `except Exception` takes what it raises, and the RuntimeError of
\* an executor that has been shut down.
CleanupQuit ==
    /\ cl.pc = "quitting"
    /\ cl.i <= Len(browser_pool)
    /\ quits' = IF quit_submitted(executor_down)
                THEN [quits EXCEPT ![browser_pool[cl.i]] = @ + 1]
                ELSE quits
    /\ cl' = [cl EXCEPT !.i = @ + 1]
    /\ UNCHANGED <<notClean, browser_pool, pool_lock, created, executor_down,
                   lent, reused, cleanups_left>>

\* The loop is over: the pool is cleared, the lock released and the executor
\* shut down, with no await that suspends in between.
CleanupClear ==
    /\ cl.pc = "quitting"
    /\ cl.i > Len(browser_pool)
    /\ browser_pool' = <<>>
    /\ pool_lock' = lock_release(pool_lock)
    /\ executor_down' = TRUE
    /\ cl' = [cl EXCEPT !.pc = "done"]
    /\ UNCHANGED <<notClean, created, lent, reused, quits, cleanups_left>>

\* cleanup has returned.
CleanupEnd ==
    /\ cl.pc = "done"
    /\ cl' = NoCleanup
    /\ UNCHANGED <<notClean, browser_pool, pool_lock, created, executor_down,
                   lent, reused, quits, cleanups_left>>

NextClean ==
    \/ GetPooled
    \/ GetCreated
    \/ \E b \in BrowserIds : ReturnLent(b)
    \/ CleanupStart
    \/ CleanupQuit
    \/ CleanupClear
    \/ CleanupEnd

SpecClean == InitClean /\ [][NextClean]_vars


(***************************************************************************)
(* SessionPool: the lock, and the browser calls made while it is held      *)
(***************************************************************************)

\* A pool of one session that the janitor keeps filled; the callers are
\* threads; one shutdown.
InitLock ==
    /\ Constructed({<<1, 1>>}, MaxLockCalls, 1) /\ oneLoop = FALSE
    /\ AsyncConstructed /\ MonIdle

notLock == <<confVars, exit, returned, batchVars, authVars, monVars,
             retryVars, opVars, cleanVars, ageVars, globVars>>

\* get_session: a pass of the while loop enters `with self._lock`.
LockGet(c) ==
    /\ pc[c] \in {"idle", "waiting"}
    /\ pc[c] = "idle" => budget > 0
    /\ budget' = IF pc[c] = "idle" THEN budget - 1 ELSE budget
    /\ lk = NoHolder
    /\ lk' = c
    /\ pc' = [pc EXCEPT ![c] = "scan"]
    /\ UNCHANGED <<notLock, poolVars, held, jpc, shutdown_event, spc,
                   root_left>>

\* The scan finds an idle healthy session; the return leaves the block.
ScanIdle(c, sid) ==
    /\ pc[c] = "scan"
    /\ sid \in Candidates(Pool)
    /\ pc' = [pc EXCEPT ![c] = "body"]
    /\ held' = [held EXCEPT ![c] = sid]
    /\ SetPool(take_session(Pool, sid), held')
    /\ lk' = NoHolder
    /\ UNCHANGED <<notLock, jpc, shutdown_event, spc, budget, root_left>>

\* Nothing idle and the pool under its limit: _create_session is called,
\* inside the block.
ScanCreate(c) ==
    /\ pc[c] = "scan"
    /\ Candidates(Pool) = {}
    /\ under_limit(Pool, max_pool_size)
    /\ pc' = [pc EXCEPT ![c] = "creating"]
    /\ UNCHANGED <<notLock, poolVars, held, jpc, shutdown_event, spc, budget,
                   root_left, lk>>

\* Nothing idle and the pool at its limit: the block is left for the sleep.
ScanFull(c) ==
    /\ pc[c] = "scan"
    /\ Candidates(Pool) = {}
    /\ ~under_limit(Pool, max_pool_size)
    /\ pc' = [pc EXCEPT ![c] = "waiting"]
    /\ lk' = NoHolder
    /\ UNCHANGED <<notLock, poolVars, held, jpc, shutdown_event, spc, budget,
                   root_left>>

\* create_browser has returned: the session is entered and returned.
Created(c, sid) ==
    /\ pc[c] = "creating"
    /\ sid \in FirstFree(FreeIds, 1)
    /\ pc' = [pc EXCEPT ![c] = "body"]
    /\ held' = [held EXCEPT ![c] = sid]
    /\ SetPool(create_leased(Pool, sid), held')
    /\ lk' = NoHolder
    /\ UNCHANGED <<notLock, jpc, shutdown_event, spc, budget, root_left>>

\* create_browser has raised: the error is logged, the block is left.
CreateFailed(c) ==
    /\ pc[c] = "creating"
    /\ pc' = [pc EXCEPT ![c] = "waiting"]
    /\ lk' = NoHolder
    /\ UNCHANGED <<notLock, poolVars, held, jpc, shutdown_event, spc, budget,
                   root_left>>

\* The timeout has passed at the head of a pass: None is returned.
WaitTimeout(c) ==
    /\ pc[c] = "waiting"
    /\ pc' = [pc EXCEPT ![c] = "idle"]
    /\ UNCHANGED <<notLock, poolVars, held, jpc, shutdown_event, spc, budget,
                   root_left, lk>>

\* The scope of SessionManager.get_session ends: return_session, the whole
\* of its block.
LockReturn(c, kind) ==
    /\ pc[c] = "body"
    /\ lk = NoHolder
    /\ pc' = [pc EXCEPT ![c] = "idle"]
    /\ held' = [held EXCEPT ![c] = NoSession]
    /\ SetPool(apply_returns(Pool, scope_returns(held[c], kind)), held')
    /\ UNCHANGED <<notLock, jpc, shutdown_event, spc, budget, root_left, lk>>

\* _health_check_loop: the while condition.
JanitorLoop ==
    /\ jpc = "wait"
    /\ jpc' = IF health_check_continues(shutdown_event)
              THEN "cleanup" ELSE "exited"
    /\ UNCHANGED <<notLock, poolVars, pc, held, shutdown_event, spc, budget,
                   root_left, lk>>

\* _cleanup_expired_sessions enters its block; with sessions to remove it
\* goes on to quit their browsers, inside the block.
JanitorLockCleanup(Old, Unused) ==
    /\ jpc = "cleanup"
    /\ Old \subseteq sessions
    /\ Unused \subseteq sessions
    /\ lk = NoHolder
    /\ SetPool(cleanup_expired_sessions(Pool, Old, Unused), held)
    /\ IF sessions' # sessions
       THEN jpc' = "closing" /\ lk' = "janitor"
       ELSE jpc' = "maintain" /\ lk' = NoHolder
    /\ UNCHANGED <<notLock, pc, held, shutdown_event, spc, budget, root_left>>

\* The calls of quit have returned or raised; the block is left.
JanitorClosed ==
    /\ jpc = "closing"
    /\ jpc' = "maintain"
    /\ lk' = NoHolder
    /\ UNCHANGED <<notLock, poolVars, pc, held, shutdown_event, spc, budget,
                   root_left>>

\* _maintain_pool_size enters its block; under the minimum it goes on to
\* create sessions, inside the block.
JanitorLockMaintain ==
    /\ jpc = "maintain"
    /\ lk = NoHolder
    /\ IF needed(Pool, min_pool_size) > 0
       THEN jpc' = "creating" /\ lk' = "janitor"
       ELSE jpc' = "wait" /\ lk' = NoHolder
    /\ UNCHANGED <<notLock, poolVars, pc, held, shutdown_event, spc, budget,
                   root_left>>

\* Of the creations k have succeeded; the block is left.
JanitorCreated(k) ==
    /\ jpc = "creating"
    /\ k <= needed(Pool, min_pool_size)
    /\ k <= Cardinality(FreeIds)
    /\ jpc' = "wait"
    /\ SetPool(add_idle_sessions(Pool, FirstFree(FreeIds, k)), held)
    /\ lk' = NoHolder
    /\ UNCHANGED <<notLock, pc, held, shutdown_event, spc, budget, root_left>>

\* shutdown: the event is set.
LockShutdownSet ==
    /\ spc = "none"
    /\ root_left > 0
    /\ root_left' = root_left - 1
    /\ spc' = "joining"
    /\ shutdown_event' = TRUE
    /\ UNCHANGED <<notLock, poolVars, pc, held, jpc, budget, lk>>

\* join(timeout=5) returns: the janitor has exited, or is inside a pass that
\* takes longer than the timeout.
LockShutdownJoin ==
    /\ spc = "joining"
    /\ jpc # "wait"
    /\ spc' = "draining"
    /\ UNCHANGED <<notLock, poolVars, pc, held, jpc, shutdown_event, budget,
                   root_left, lk>>

\* shutdown enters its block and removes every session, quitting the
\* browsers inside the block.
LockShutdownDrain ==
    /\ spc = "draining"
    /\ lk = NoHolder
    /\ SetPool(remove_all(Pool, sessions), held)
    /\ IF sessions # {}
       THEN spc' = "closing" /\ lk' = "shutdown"
       ELSE spc' = "done" /\ lk' = NoHolder
    /\ UNCHANGED <<notLock, pc, held, jpc, shutdown_event, budget, root_left>>

ShutdownClosed ==
    /\ spc = "closing"
    /\ spc' = "done"
    /\ lk' = NoHolder
    /\ UNCHANGED <<notLock, poolVars, pc, held, jpc, shutdown_event, budget,
                   root_left>>

\* The steps a caller makes inside the block of get_session.
InBlock(c) ==
    \/ \E sid \in IDs : ScanIdle(c, sid)
    \/ ScanCreate(c)
    \/ ScanFull(c)
    \/ \E sid \in IDs : Created(c, sid)
    \/ CreateFailed(c)

JanitorEnters == \E Old \in SUBSET IDs, Unused \in SUBSET IDs :
                    JanitorLockCleanup(Old, Unused)

JanitorHasCreated == \E k \in 0..Cardinality(IDs) : JanitorCreated(k)

NextLock ==
    \/ \E c \in Callers : LockGet(c)
    \/ \E c \in Callers : InBlock(c)
    \/ \E c \in Callers : WaitTimeout(c)
    \/ \E c \in Callers, kind \in ExitKinds : LockReturn(c, kind)
    \/ JanitorLoop
    \/ JanitorEnters
    \/ JanitorClosed
    \/ JanitorLockMaintain
    \/ JanitorHasCreated
    \/ LockShutdownSet
    \/ LockShutdownJoin
    \/ LockShutdownDrain
    \/ ShutdownClosed

SpecLock == InitLock /\ [][NextLock]_vars

\* Every thread that can take a step takes one: a thread inside a block
\* goes on; a thread waiting for the lock gets it when it is released again
\* and again (the loop of get_session sleeps outside its block).
LockFairness ==
    /\ \A c \in Callers : WF_vars(InBlock(c))
    /\ WF_vars(JanitorLoop)
    /\ SF_vars(JanitorEnters)
    /\ WF_vars(JanitorClosed)
    /\ SF_vars(JanitorLockMaintain)
    /\ WF_vars(JanitorHasCreated)
    /\ WF_vars(LockShutdownJoin)
    /\ SF_vars(LockShutdownDrain)
    /\ WF_vars(ShutdownClosed)

SpecLockFair == SpecLock /\ LockFairness

\* C1: a session get_session gave to a caller is not in the available set
\* and is given to no other caller until the first returns it.
C1_Exclusive ==
    \A a \in Callers :
        Leased(a) =>
            /\ held[a] \notin available
            /\ \A b \in Callers \ {a} : Leased(b) => held[b] # held[a]

C1_Witness ==
    \E a \in Callers, b \in Callers :
        /\ a # b
        /\ Leased(a) /\ held[a] \in sessions
        /\ Leased(b) /\ held[b] \in sessions

\* C2: the mapping never holds more than max_pool_size sessions, whatever
\* min_pool_size and max_pool_size are configured.
C2_SizeBound == Cardinality(sessions) <= max_pool_size

\* C3: a janitor pass (_cleanup_expired_sessions) removes no leased session
\* and leaves its browser open.
C3_JanitorSparesLeased ==
    [][(jpc = "cleanup" /\ jpc' = "maintain") =>
          \A c \in Callers :
              (Leased(c) /\ held[c] \in sessions) =>
                  /\ held[c] \in sessions'
                  /\ obj'[held[c]].browser = "open"]_vars

\* C4: once shutdown has returned the mapping is empty and stays empty, and
\* the janitor thread has exited.
C4_TeardownDrains ==
    spc \in {"done", "closed"} => (sessions = {} /\ jpc = "exited")

\* C5: a get_session call made after shutdown was called fails at once: the
\* caller neither waits nor gets a session, and no session is created.
C5_FailFastAfterShutdown ==
    [][\A c \in Callers :
          (shutdown_event /\ pc[c] = "idle" /\ pc'[c] # "idle") =>
              (pc'[c] = "failed" /\ sessions' = sessions)]_vars

\* C6: a scope that got a session calls return_session for that session
\* exactly once on leaving its body, however it leaves, and not before; with
\* had_error = TRUE after an exception, FALSE after a normal exit.
C6_ReleasedOnce ==
    \A c \in Callers :
        /\ Leased(c) => returned[c] = <<>>
        /\ pc[c] = "released" =>
              /\ exit[c] \in ExitKinds
              /\ Len(returned[c]) = 1
              /\ returned[c][1].session = held[c]
              /\ exit[c] = "exception" => returned[c][1].had_error
              /\ exit[c] = "normal" => ~returned[c][1].had_error

C6_Witness ==
    \E a \in Callers, b \in Callers :
        /\ pc[a] = "released" /\ exit[a] = "cancelled"
        /\ pc[b] = "released" /\ exit[b] = "exception"
        /\ obj[held[b]].error_count = 1

\* C7: a session whose error_count has reached max_errors is given out by no
\* later get_session.
C7_ExhaustedNeverLeased ==
    \A c \in Callers : Leased(c) => obj[held[c]].error_count < max_errors

C7_Witness ==
    \E a \in Callers, b \in Callers :
        /\ pc[a] = "released" /\ obj[held[a]].error_count = max_errors
        /\ Leased(b) /\ held[b] \in sessions

C9_IdleOrLeased ==
    /\ available \subseteq sessions
    /\ \A s \in sessions :
          \/ s \in available /\ ~obj[s].is_busy
          \/ s \notin available /\ obj[s].is_busy

C9_Witness ==
    \E s \in sessions, r \in sessions :
        /\ s \in available /\ obj[s].usage_count > 0
        /\ r \notin available /\ obj[r].is_busy

\* C10: with max_pool_size = 1, while one task waits in get_session for the
\* session another task holds, the holder is able to run on and release.
C10_HolderRunsWhileOtherWaits ==
    \A a \in Callers, b \in Callers :
        (max_pool_size = 1 /\ Leased(a) /\ pc[b] = "waiting") =>
            ENABLED ScopeExit(a, "normal")

\* C11: a get_session call that finds no idle session while the mapping is at
\* (or over) max_pool_size neither takes nor creates a session: the pass
\* sleeps, the call ends with the timeout outcome (None, RuntimeError in
\* SessionManager.get_session), and the mapping, the available set and every
\* session's counters and is_busy are as they were.
C11_TimeoutLeavesPool ==
    [][\A c \in Callers :
          (/\ pc[c] \in {"idle", "waiting"}
           /\ pc'[c] # pc[c]
           /\ Candidates(Pool) = {}
           /\ Cardinality(sessions) >= max_pool_size) =>
              /\ pc[c] = "idle" => pc'[c] = "waiting"
              /\ pc[c] = "waiting" => pc'[c] = "failed"
              /\ held'[c] = NoSession
              /\ UNCHANGED poolVars]_vars

C11_Witness ==
    \E c \in Callers, d \in Callers :
        /\ pc[c] = "failed"
        /\ Leased(d) /\ held[d] \in sessions /\ obj[held[d]].is_busy
        /\ available = {}
        /\ Cardinality(sessions) >= max_pool_size

\* The pools P and Q look the same from outside but for the usage_count of
\* sid: the same ids in the mapping, the same available set, the same objects
\* otherwise.
SameButUsage(P, Q, sid) ==
    /\ P.sessions = Q.sessions
    /\ P.available = Q.available
    /\ \A s \in P.sessions \ {sid} : Q.obj[s] = P.obj[s]
    /\ Q.obj[sid] = [P.obj[sid] EXCEPT !.usage_count = Q.obj[sid].usage_count]

\* C12 as stated: from any state of the pool, get_session followed by
\* return_session(had_error = False) leaves the mapping, the available set
\* and the error counts as they were.
C12_RoundTripAnyState ==
    /\ \A sid \in Candidates(Pool) :
          SameButUsage(Pool, round_trip_idle(Pool, sid), sid)
    /\ (Candidates(Pool) = {} /\ under_limit(Pool, max_pool_size)) =>
          \A sid \in FirstFree(FreeIds, 1) :
              SameButUsage(Pool, round_trip_new(Pool, sid), sid)

\* C12 as amended: that holds when get_session takes an idle session, whose
\* usage_count grows by one.  When nothing is idle and the mapping is under
\* max_pool_size, get_session creates a session, and after its return the
\* mapping and the available set have that one session more (usage_count 1,
\* error_count 0, not busy), the other sessions as they were.
C12_RoundTripIdle ==
    /\ \A sid \in Candidates(Pool) :
          LET Q == round_trip_idle(Pool, sid)
          IN /\ SameButUsage(Pool, Q, sid)
             /\ Q.obj[sid].usage_count = obj[sid].usage_count + 1
    /\ (Candidates(Pool) = {} /\ under_limit(Pool, max_pool_size)) =>
          \A sid \in FirstFree(FreeIds, 1) :
              LET Q == round_trip_new(Pool, sid)
              IN /\ Q.sessions = sessions \cup {sid} /\ sid \notin sessions
                 /\ Q.available = available \cup {sid}
                 /\ \A s \in sessions : Q.obj[s] = obj[s]
                 /\ Q.obj[sid] = [NewObj EXCEPT !.usage_count = 1]

C12_Witness ==
    \E c \in Callers :
        /\ pc[c] = "released" /\ exit[c] = "normal"
        /\ held[c] \in Candidates(Pool)
        /\ obj[held[c]].usage_count = 2
        /\ obj[held[c]].error_count = 0

\* C13: the list a batch call returns has the length of its input list, and
\* its i-th element is what the job made from the i-th input returned or
\* raised, in whatever order the jobs completed.
C13_OrderPreserved ==
    b_state = "gathered" =>
        /\ Len(results) = b_n
        /\ \A i \in 1..b_n : results[i] = outcome[i] /\ results[i].job = i

C13_Witness ==
    /\ b_state = "gathered"
    /\ b_n >= 2
    /\ order[1] = b_n
    /\ results[1].kind # results[b_n].kind

\* C14: a job that raises cancels no other job: a job is cancelled only when
\* the caller cancels the batch, and the list of a batch that was not
\* cancelled holds at every index what that job returned or raised itself.
C14_FailureStaysLocal ==
    /\ \A i \in Jobs : cancel_req[i] => b_state = "cancelling"
    /\ b_state = "gathered" =>
          \A i \in 1..b_n :
              /\ results[i].job = i
              /\ results[i].kind \in {"value", "false", "error"}

C14_Witness ==
    /\ b_state = "gathered"
    /\ b_kind = "operations"
    /\ \E a \in 1..b_n, b \in 1..b_n :
          /\ a < b
          /\ results[order[a]].kind = "error"
          /\ results[order[b]].kind = "value"

\* The jobs that hold a browser.
InUse == {i \in 1..b_n : tasks[i] \in {"working", "lock_ret"}}

\* C15: during a batch the browsers in the hands of jobs and in the idle list
\* are never more than max_pool_size.
C15_BrowsersWithinMax ==
    Cardinality(InUse) + Len(browser_pool) <= max_pool_size

\* C16: a job that got a browser from get_browser and has ended, however it
\* ended, has put that browser back with return_browser once.
C16_HandedBackOnce ==
    \A i \in Jobs :
        (tasks[i] = "done" /\ task_browser[i] # NoBrowser) => handed[i] = 1

\* C20: a call of ResourceManager.shutdown made after an earlier one has
\* returned changes nothing in the pool: no step of it retires or creates a
\* session.
C20_ShutdownIdempotent ==
    [][(root_left < MaxShutdowns - 1 /\ spc' # spc) =>
          UNCHANGED poolVars]_vars

\* C17: a session that get_authenticated_session has yielded for a username
\* has its browser logged in as that user, and a session with
\* is_authenticated set has the logged-in user as its username.
C17_LoggedInAsRequested ==
    /\ \A c \in Callers :
          (pc[c] = "body" /\ yielded[c]) => obj[held[c]].account = want[c]
    /\ \A s \in sessions :
          obj[s].is_authenticated => obj[s].username = obj[s].account

\* A caller's get_authenticated_session goes past its test in this step.
Tested(c) == pc[c] = "body" /\ want[c] = NoUser /\ want'[c] # NoUser

\* C18: login is called exactly when the leased session is not authenticated
\* or has another username; and nothing but a login changes is_authenticated
\* or username of a session that stays in the mapping, so that a session
\* authenticated for a username is yielded for it without login when it is
\* leased again.
C18_LoginExactlyWhenNeeded ==
    [][/\ \A c \in Callers :
            Tested(c) =>
                (login_result'[c] # "none" <=>
                    (~obj[held[c]].is_authenticated
                        \/ obj[held[c]].username # want'[c]))
       /\ \A s \in sessions \cap sessions' :
            (\A c \in Callers : ~(Tested(c) /\ held[c] = s)) =>
                /\ obj'[s].is_authenticated = obj[s].is_authenticated
                /\ obj'[s].username = obj[s].username]_vars

C18_Witness ==
    \E c \in Callers :
        /\ pc[c] = "body" /\ yielded[c] /\ login_result[c] = "none"
        /\ obj[held[c]].usage_count >= 2
        /\ obj[held[c]].username = want[c]

\* C19: when login returns False the call ends with the error, return_session
\* is called once with had_error = True (the error_count of a session of the
\* mapping grows by one) and is_authenticated and username are as before;
\* when login returns True the session is yielded with is_authenticated set
\* and the requested username.
C19_LoginOutcome ==
    [][\A c \in Callers :
          Tested(c) =>
              LET s == held[c]
              IN /\ login_result'[c] = "false" =>
                       /\ pc'[c] = "released" /\ exit'[c] = "exception"
                       /\ ~yielded'[c]
                       /\ returned'[c] = <<[session |-> s, had_error |-> TRUE]>>
                       /\ obj'[s].error_count = obj[s].error_count + 1
                       /\ obj'[s].is_authenticated = obj[s].is_authenticated
                       /\ obj'[s].username = obj[s].username
                 /\ login_result'[c] = "true" =>
                       /\ pc'[c] = "body" /\ yielded'[c]
                       /\ obj'[s].is_authenticated
                       /\ obj'[s].username = want'[c]
                       /\ obj'[s].error_count = obj[s].error_count]_vars

\* C21: when ResourceManager.shutdown has returned, the pool is marked for
\* shutdown, the janitor has exited, no session is left and the collection
\* thread of the performance monitor has been stopped.
C21_ShutdownSteps ==
    spc = "closed" =>
        /\ shutdown_event
        /\ jpc = "exited"
        /\ sessions = {}
        /\ cpc # "collect"

\* C22: what get_operation_stats and get_metrics return when nothing was
\* recorded or added since reset_stats is empty, and so are the containers.
C22_ResetThenEmpty ==
    /\ \A t \in Threads :
          (/\ th[t].pc = "done" /\ th[t].job \in {"stats", "metrics"}
           /\ th[t].seen_fresh) => DOMAIN th[t].seen = {}
    /\ fresh => /\ DOMAIN get_operation_stats(operation_stats) = {}
                /\ get_metrics(metrics) = <<>>

C22_Witness ==
    \E t \in Threads, u \in Threads :
        /\ th[t].pc = "done" /\ th[t].job = "stats" /\ th[t].seen_fresh
        /\ th[u].pc = "done" /\ th[u].job = "metrics" /\ th[u].seen_fresh
        /\ \E n \in Names : started[n] > 0
        /\ clock > 0

\* A thread is inside the locked block of record_operation for the name, or
\* about to enter it.
Recording(n) ==
    \E t \in Threads : th[t].name = n /\ th[t].pc \in {"enter", "count", "flag"}

\* C23: with the monitor enabled and no reset, once the record_operation
\* calls made for a name are through add_timing the count of the name is
\* the number of those calls and is success_count + error_count; and every
\* dictionary get_operation_stats has returned has count = success_count +
\* error_count for each name.
C23_NoLostUpdate ==
    /\ (enabled /\ ~was_reset) =>
          \A n \in Names :
              ~Recording(n) =>
                  /\ operation_stats[n].count = started[n]
                  /\ operation_stats[n].success_count
                        + operation_stats[n].error_count = started[n]
    /\ \A t \in Threads :
          (th[t].pc = "done" /\ th[t].job = "stats") =>
              \A n \in DOMAIN th[t].seen :
                  th[t].seen[n].count =
                      th[t].seen[n].success_count + th[t].seen[n].error_count

C23_Witness ==
    \E n \in Names :
        /\ ~was_reset
        /\ \A t \in Threads : th[t].name = n /\ th[t].pc = "metric"
        /\ operation_stats[n].count = Cardinality(Threads)

Over == rt.pc \in {"returned", "raised"}

\* The exceptions of the calls of func made so far, but the last call.
Earlier == {rt.log[k].kind : k \in 1..(Len(rt.log) - 1)}

\* C26 as stated: func is called at least once and at most max_retries times.
C26_AtMostBoundCalls ==
    Over => (Len(rt.log) >= 1 /\ Len(rt.log) <= rt.max_retries)

\* C26: with max_retries >= 0 func is called at least once and at most
\* max_retries + 1 times; every call but the last raised a caught exception;
\* a call that returns is the last and its value is returned; when every
\* call raised a caught exception there were max_retries + 1 calls and the
\* exception of the last is raised.  With max_retries < 0 func is not called
\* and TypeError is raised.
C26_AtMostRetriesPlusOne ==
    /\ Earlier \subseteq rt.exceptions
    /\ Len(rt.log) <= Greatest(rt.max_retries + 1, 0)
    /\ Over =>
          /\ rt.max_retries >= 0 => Len(rt.log) >= 1
          /\ rt.max_retries < 0 =>
                (rt.log = <<>> /\ rt.pc = "raised" /\ rt.out.kind = "TypeError")
          /\ rt.log # <<>> => rt.out = rt.log[Len(rt.log)]
          /\ rt.pc = "returned" <=>
                (rt.log # <<>> /\ rt.log[Len(rt.log)].kind = "value")
          /\ (rt.pc = "raised" /\ rt.out.kind \in rt.exceptions) =>
                (Len(rt.log) = rt.max_retries + 1
                    /\ rt.out.attempt = rt.max_retries)

C26_Witness ==
    /\ rt.pc = "raised" /\ rt.max_retries = MaxRetries
    /\ Len(rt.log) = MaxRetries + 1
    /\ rt.out = [kind |-> "Timeout", attempt |-> MaxRetries]

\* C27: an exception of func that the except clause does not catch is
\* raised to the caller by the call that raised it: no call and no sleep
\* follows it.
C27_NotCaughtPropagates ==
    /\ \A k \in 1..Len(rt.log) :
          (rt.log[k].kind \in ExceptionKinds \ rt.exceptions) =>
              /\ k = Len(rt.log)
              /\ rt.pc = "raised" /\ rt.out = rt.log[k]
              /\ Len(rt.slept) = k - 1
    /\ rt.pc = "sleep" => rt.log[Len(rt.log)].kind \in rt.exceptions

C27_Witness ==
    /\ rt.pc = "raised" /\ rt.out.kind = "Fatal"
    /\ rt.exceptions = {"Timeout"}
    /\ rt.max_retries = MaxRetries
    /\ Len(rt.log) = 2 /\ Len(rt.slept) = 1

\* The call in progress is one of retry_on_failure.
Retrying == rt.pc \in {"try", "sleep", "returned", "raised"}

WaitTimedOut(i) ==
    /\ bo[i].steps # <<>>
    /\ bo[i].steps[1] = [call |-> "until", res |-> "TimeoutException"]
Failed(i) ==
    \E k \in 1..Len(bo[i].steps) : bo[i].steps[k].res \notin {"found", "ok"}

\* C29: an operation whose wait timed out returns False (None for get_text)
\* and raises nothing, and an operation in which anything else failed raises
\* to its caller.
C29_TimeoutNegativeElseError ==
    \A i \in OpTasks :
        bo[i].pc = "done" =>
            /\ WaitTimedOut(i) =>
                  bo[i].result =
                      [kind |-> "return", value |-> negative(bo[i].op)]
            /\ (Failed(i) /\ ~WaitTimedOut(i)) => bo[i].result.kind = "raise"
            /\ ~Failed(i) =>
                  bo[i].result =
                      [kind |-> "return", value |-> positive(bo[i].op)]

\* C30: when cleanup clears the pool, quit has been called once by this
\* cleanup on every browser that was in the pool, and the pool is empty.
C30_QuitEachOnce ==
    [][(cl.pc = "quitting" /\ cl'.pc = "done") =>
          /\ browser_pool' = <<>>
          /\ \A k \in 1..Len(cl.seen) :
                quits'[cl.seen[k]] = cl.before[cl.seen[k]] + 1]_vars

\* C31: a pass of _cleanup_expired_sessions retires (takes out of the mapping
\* and of the available set, with its browser closed) every session that is
\* expired, idle or unhealthy at that pass, and no other session.
C31_RetiresExactlyTheDue ==
    [][\A Old \in SUBSET IDs, Unused \in SUBSET IDs :
          JanitorCleanup(Old, Unused) =>
              \A sid \in sessions :
                  LET due == \/ is_expired(sid, Old)
                             \/ is_idle(sid, Unused)
                             \/ ~is_healthy(obj[sid])
                  IN /\ due => /\ sid \notin sessions'
                               /\ sid \notin available'
                               /\ obj'[sid].browser # "open"
                     /\ ~due => /\ sid \in sessions'
                                /\ (sid \in available') = (sid \in available)
                                /\ obj'[sid] = obj[sid]]_vars

\* A pass has retired one session, which a caller still holds, and kept
\* another.
C31_Witness ==
    /\ jpc = "maintain"
    /\ spc = "none"
    /\ sessions # {}
    /\ \E c \in Callers :
          /\ pc[c] = "body"
          /\ held[c] \notin sessions
          /\ obj[held[c]].browser = "closed"

\* C32: a pass of _maintain_pool_size over a pool of fewer than min_pool_size
\* sessions creates idle sessions, at most min_pool_size - |live| of them and
\* that many when every creation succeeds, while the pool is not shutting
\* down; once shutdown has been requested the janitor creates no session.
C32_MaintainUnlessShutdown ==
    [][\A k \in 0..Cardinality(IDs) :
          JanitorMaintain(k) =>
              /\ shutdown_event => sessions' = sessions
              /\ ~shutdown_event =>
                    /\ sessions \subseteq sessions'
                    /\ sessions' \ sessions \subseteq available'
                    /\ Cardinality(sessions' \ sessions) = k
                    /\ k <= needed(Pool, min_pool_size)]_vars

\* C33: no thread holds the pool lock while it creates or closes a browser.
C33_NoBrowserCallUnderLock ==
    /\ \A c \in Callers : pc[c] = "creating" => lk # c
    /\ jpc \in {"creating", "closing"} => lk # "janitor"
    /\ spc = "closing" => lk # "shutdown"

\* C40: once the shutdown flag is set the janitor thread exits, a call of
\* shutdown returns, and the pool lock is always released again: no thread
\* waits forever for the lock or for the janitor.
C40_ShutdownTerminates ==
    /\ shutdown_event ~> (jpc = "exited")
    /\ (spc = "joining") ~> (spc = "done")
    /\ (lk # NoHolder) ~> (lk = NoHolder)

\* shutdown has given up the join and waits for the lock, which the janitor
\* holds in the middle of a pass, while a caller uses a session.
C40_Witness ==
    /\ spc = "draining"
    /\ jpc = "creating"
    /\ lk = "janitor"
    /\ \E c \in Callers : pc[c] = "body"

\* C34: a scope of SessionManager.get_session that is cancelled inside its
\* body releases its session with had_error = TRUE.
C34_CancelledMarksError ==
    \A c \in Callers :
        (pc[c] = "released" /\ exit[c] = "cancelled") =>
            /\ Len(returned[c]) = 1
            /\ returned[c][1].session = held[c]
            /\ returned[c][1].had_error

\* The step is a get_session that returns the session sid.
Acquires(sid) ==
    \E c \in Callers :
        pc[c] \in {"idle", "waiting"} /\ pc'[c] = "body" /\ held'[c] = sid

\* The step is a return_session of sid with had_error = TRUE.
ReleasesWithError(sid) ==
    \E c \in Callers :
        /\ pc[c] = "body" /\ pc'[c] = "released" /\ held[c] = sid
        /\ \E k \in 1..Len(returned'[c]) : returned'[c][k].had_error

\* C35: usage_count and error_count of a session never decrease;
\* usage_count grows by one on each get_session that returns the session and
\* at no other time, error_count by one on each return_session with
\* had_error = TRUE and at no other time.
C35_CountersStepByOne ==
    [][\A sid \in IDs :
          (sid \in sessions' \/ \E c \in Callers : held'[c] = sid) =>
              /\ obj'[sid].usage_count =
                    obj[sid].usage_count + (IF Acquires(sid) THEN 1 ELSE 0)
              /\ obj'[sid].error_count =
                    obj[sid].error_count +
                        (IF ReleasesWithError(sid) THEN 1 ELSE 0)]_vars

\* C36: no call of an earlier holder is running on a browser that is in the
\* pool or in the hands of a job.
C36_NoCallOfPreviousHolder ==
    \A b \in detached :
        /\ \A k \in 1..Len(browser_pool) : browser_pool[k] # b
        /\ \A i \in Jobs : tasks[i] = "working" => task_browser[i] # b

\* C37: a PerformanceTimer scope in which mark_error was called is recorded
\* as failed, however the scope is left.
C37_MarkedRecordsFailure ==
    \A t \in Threads :
        (th[t].job = "timer" /\ th[t].pc # "scope" /\ th[t].marked) =>
            th[t].calls = <<[name |-> th[t].name, success |-> FALSE]>>

\* C38: after an add_metric the log holds no metric older than the retention,
\* whether or not the collection thread runs.
C38_AddMetricDropsOld ==
    [][\A t \in Threads :
          (th[t].pc = "metric" /\ th'[t].pc = "done") =>
              \A k \in 1..Len(metrics') : metrics'[k].timestamp >= horizon]_vars

\* C39: as long as cleanup_performance_monitoring has not been called,
\* initialize_performance_monitoring has constructed at most one monitor, at
\* most one collection thread runs, and every call that has returned has
\* returned the same monitor.
C39_OneMonitor ==
    cleanups = 0 =>
        /\ monitors <= 1
        /\ Cardinality(sampling) <= 1
        /\ \A t \in Threads, u \in Threads :
              (ini[t].pc = "done" /\ ini[u].pc = "done") =>
                  ini[t].got = ini[u].got

====
